---- MODULE Spec2Model ----
(***************************************************************************)
(* Model of the Pinia store of the carbon-stocks-and-disasters dashboard   *)
(* (state, loadData, the selection actions, the two getters                *)
(* disastersByCountry / carbonByCountry) and of the data transformation    *)
(* of the chart components that read it.                                   *)
(*                                                                         *)
(* JavaScript strings are modelled as sequences of one-character strings,  *)
(* so that String.prototype.includes and the unary plus are computed and   *)
(* not tabulated.  JavaScript numbers are modelled as exact rationals plus *)
(* NaN and the two infinities.                                             *)
(***************************************************************************)
EXTENDS Integers, Sequences, FiniteSets, TLC

\* ------------------------------------------------------------------------
\* Bounds of the model
\* ------------------------------------------------------------------------

\* longest table (number of CSV data rows) a fetch returns
MaxRows == 3

\* number of overlapping loadData calls (App and the chart components)
NumCalls == 3

\* ------------------------------------------------------------------------
\* String literals of the source
\* ------------------------------------------------------------------------

kCountry == <<"C", "o", "u", "n", "t", "r", "y">>

kISO2 == <<"I", "S", "O", "2">>

kISO3 == <<"I", "S", "O", "3">>

kIndicator == <<"I", "n", "d", "i", "c", "a", "t", "o", "r">>

kUnit == <<"U", "n", "i", "t">>

kSource == <<"S", "o", "u", "r", "c", "e">>

tDrought == <<"D", "r", "o", "u", "g", "h", "t">>

tExtremeTemperature == <<"E", "x", "t", "r", "e", "m", "e", " ", "t", "e", "m", "p", "e", "r", "a", "t", "u", "r", "e">>

tFlood == <<"F", "l", "o", "o", "d">>

tLandslide == <<"L", "a", "n", "d", "s", "l", "i", "d", "e">>

tStorm == <<"S", "t", "o", "r", "m">>

tTOTAL == <<"T", "O", "T", "A", "L">>

tWildfire == <<"W", "i", "l", "d", "f", "i", "r", "e">>

tCarbonStocks == <<"C", "a", "r", "b", "o", "n", " ", "s", "t", "o", "c", "k", "s">>

tForestArea == <<"F", "o", "r", "e", "s", "t", " ", "a", "r", "e", "a">>

tIndexCarbon == <<"I", "n", "d", "e", "x", " ", "o", "f", " ", "c", "a", "r", "b", "o", "n", " ", "s", "t", "o", "c", "k", "s", " ", "i", "n", " ", "f", "o", "r", "e", "s", "t", "s">>

tIndexForestExtent == <<"I", "n", "d", "e", "x", " ", "o", "f", " ", "f", "o", "r", "e", "s", "t", " ", "e", "x", "t", "e", "n", "t">>

tLandArea == <<"L", "a", "n", "d", " ", "a", "r", "e", "a">>

tShareForestArea == <<"S", "h", "a", "r", "e", " ", "o", "f", " ", "f", "o", "r", "e", "s", "t", " ", "a", "r", "e", "a">>

\* const disasterTypes = [...] of the getter, in source order
disasterTypes == <<tDrought, tExtremeTemperature, tFlood, tLandslide, tStorm, tTOTAL, tWildfire>>

\* const carbonTypes = [...] of the getter, in source order
carbonTypes == <<tCarbonStocks, tForestArea, tIndexCarbon, tIndexForestExtent, tLandArea, tShareForestArea>>

\* keys the disaster getter filters out of Object.keys(row)
disasterMetaKeys == {kCountry, kISO2, kISO3, kIndicator, kUnit, kSource}

\* keys the carbon getter filters out of Object.keys(row)
carbonMetaKeys == {kCountry, kISO2, kISO3}

\* ------------------------------------------------------------------------
\* JavaScript numbers: exact rationals n/d (d > 0, lowest terms), NaN, +-Infinity
\* ------------------------------------------------------------------------

Abs(x) == IF x < 0 THEN -x ELSE x

RECURSIVE Gcd(_, _)
Gcd(a, b) == IF b = 0 THEN a ELSE Gcd(b, a % b)

NaN == [kind |-> "NaN", n |-> 0, d |-> 1]

PosInf == [kind |-> "Infinity", n |-> 1, d |-> 1]

NegInf == [kind |-> "Infinity", n |-> -1, d |-> 1]

\* the number n/d, d # 0, in lowest terms with a positive denominator
Rat(n, d) ==
  LET g == Gcd(Abs(n), Abs(d))
      s == IF d < 0 THEN -1 ELSE 1
  IN  [kind |-> "fin", n |-> (s * n) \div g, d |-> (s * d) \div g]

Num(n) == [kind |-> "fin", n |-> n, d |-> 1]

\* isNaN(x) for a number x
IsNaN(x) == x.kind = "NaN"

IsFinite(x) == x.kind = "fin"

Sign(x) == IF x.n > 0 THEN 1 ELSE IF x.n < 0 THEN -1 ELSE 0

\* ToBoolean of a number: 0 and NaN are falsy
Truthy(x) == ~IsNaN(x) /\ ~(IsFinite(x) /\ x.n = 0)

\* x || y on numbers
JsOr(x, y) == IF Truthy(x) THEN x ELSE y

\* the values null and undefined, where a number is expected
Null == [kind |-> "null", n |-> 0, d |-> 1]

Undefined == [kind |-> "undefined", n |-> 0, d |-> 1]

\* x + y
NumAdd(x, y) ==
  IF IsNaN(x) \/ IsNaN(y) THEN NaN
  ELSE IF IsFinite(x) /\ IsFinite(y) THEN Rat(x.n * y.d + y.n * x.d, x.d * y.d)
  ELSE IF IsFinite(x) THEN y
  ELSE IF IsFinite(y) THEN x
  ELSE IF x = y THEN x ELSE NaN

\* x * y
NumMul(x, y) ==
  IF IsNaN(x) \/ IsNaN(y) THEN NaN
  ELSE IF IsFinite(x) /\ IsFinite(y) THEN Rat(x.n * y.n, x.d * y.d)
  ELSE IF Sign(x) * Sign(y) = 0 THEN NaN
  ELSE IF Sign(x) * Sign(y) > 0 THEN PosInf ELSE NegInf

\* x / y (IEEE 754: x/0 is an infinity, 0/0 is NaN)
NumDiv(x, y) ==
  IF IsNaN(x) \/ IsNaN(y) THEN NaN
  ELSE IF IsFinite(x) /\ IsFinite(y) THEN
         IF y.n # 0 THEN Rat(x.n * y.d, x.d * y.n)
         ELSE IF x.n = 0 THEN NaN
         ELSE IF x.n > 0 THEN PosInf ELSE NegInf
  ELSE IF IsFinite(x) THEN Num(0)
  ELSE IF IsFinite(y) THEN (IF Sign(x) * (IF y.n < 0 THEN -1 ELSE 1) > 0 THEN PosInf ELSE NegInf)
  ELSE NaN

\* x < y (false when either is NaN)
NumLess(x, y) ==
  IF IsNaN(x) \/ IsNaN(y) THEN FALSE
  ELSE IF IsFinite(x) /\ IsFinite(y) THEN x.n * y.d < y.n * x.d
  ELSE IF IsFinite(x) THEN y = PosInf
  ELSE IF IsFinite(y) THEN x = NegInf
  ELSE x = NegInf /\ y = PosInf

\* x >= y (false when either is NaN)
NumGeq(x, y) == ~IsNaN(x) /\ ~IsNaN(y) /\ ~NumLess(x, y)

\* x <= y (false when either is NaN)
NumLeq(x, y) == NumGeq(y, x)

\* ------------------------------------------------------------------------
\* JavaScript strings
\* ------------------------------------------------------------------------

Digits == <<"0", "1", "2", "3", "4", "5", "6", "7", "8", "9">>

IsDigit(c) == \E i \in 1..10 : Digits[i] = c

DigitVal(c) == (CHOOSE i \in 1..10 : Digits[i] = c) - 1

AllDigits(s) == \A i \in 1..Len(s) : IsDigit(s[i])

\* value of a sequence of decimal digits
RECURSIVE DecVal(_)
DecVal(s) == IF s = <<>> THEN 0 ELSE 10 * DecVal(SubSeq(s, 1, Len(s) - 1)) + DigitVal(s[Len(s)])

\* s without leading and trailing blanks
RECURSIVE Trim(_)
Trim(s) ==
  IF s = <<>> THEN s
  ELSE IF s[1] = " " THEN Trim(Tail(s))
  ELSE IF s[Len(s)] = " " THEN Trim(SubSeq(s, 1, Len(s) - 1))
  ELSE s

\* the unary plus on a string (StringToNumber): blank is 0, an optionally
\* signed decimal integer literal is its value, anything else is NaN.  The
\* cells of the model hold no fraction, exponent or hexadecimal literal.
ToNumber(str) ==
  LET s == Trim(str)
  IN  IF s = <<>> THEN Num(0)
      ELSE IF AllDigits(s) THEN Num(DecVal(s))
      ELSE IF Len(s) > 1 /\ s[1] \in {"-", "+"} /\ AllDigits(Tail(s))
           THEN Num((IF s[1] = "-" THEN -1 ELSE 1) * DecVal(Tail(s)))
      ELSE NaN

LowerCase ==
  <<"a", "b", "c", "d", "e", "f", "g", "h", "i", "j", "k", "l", "m",
    "n", "o", "p", "q", "r", "s", "t", "u", "v", "w", "x", "y", "z">>

UpperCase ==
  <<"A", "B", "C", "D", "E", "F", "G", "H", "I", "J", "K", "L", "M",
    "N", "O", "P", "Q", "R", "S", "T", "U", "V", "W", "X", "Y", "Z">>

\* s.toUpperCase(), for the letters a to z
ToUpperCase(s) ==
  [i \in 1..Len(s) |->
     IF \E j \in 1..26 : LowerCase[j] = s[i]
     THEN UpperCase[CHOOSE j \in 1..26 : LowerCase[j] = s[i]]
     ELSE s[i]]

\* s.includes(t)
Includes(s, t) == \E i \in 0..(Len(s) - Len(t)) : SubSeq(s, i + 1, i + Len(t)) = t

\* ------------------------------------------------------------------------
\* Row objects of d3.csv: a sequence of [k, v] properties in creation order
\* ------------------------------------------------------------------------

\* row[key], for a key the row has
Get(row, key) == row[CHOOSE i \in 1..Len(row) : row[i].k = key].v

\* an integer-like property key (a canonical array index)
IsArrayIndex(key) == key # <<>> /\ AllDigits(key) /\ (Len(key) = 1 \/ key[1] # "0")

\* s with x inserted before the first element whose number is larger
RECURSIVE InsertKey(_, _)
InsertKey(s, x) ==
  IF s = <<>> THEN <<x>>
  ELSE IF DecVal(x) < DecVal(s[1]) THEN <<x>> \o s
  ELSE <<s[1]>> \o InsertKey(Tail(s), x)

RECURSIVE SortKeys(_)
SortKeys(s) == IF s = <<>> THEN <<>> ELSE InsertKey(SortKeys(Tail(s)), s[1])

\* ObjectKeys with every key in creation order
ObjectKeysInCreationOrder(row) == [i \in 1..Len(row) |-> row[i].k]

\* Object.keys(row): the integer-like keys in ascending numeric order, then
\* the other keys in creation order
ObjectKeys(row) ==
  LET ks == [i \in 1..Len(row) |-> row[i].k]
  IN  SortKeys(SelectSeq(ks, IsArrayIndex)) \o SelectSeq(ks, LAMBDA key : ~IsArrayIndex(key))

\* ------------------------------------------------------------------------
\* Getters of the store
\* ------------------------------------------------------------------------

\* groupSet with the array of a key replaced by the new row instead of
\* extended by it
groupSetReplaces(m, row) ==
  LET c == Get(row, kCountry)
  IN  IF \E i \in 1..Len(m) : m[i].key = c
      THEN [i \in 1..Len(m) |-> IF m[i].key = c THEN [key |-> c, values |-> <<row>>] ELSE m[i]]
      ELSE Append(m, [key |-> c, values |-> <<row>>])

\* groupSet with a new entry for every row, also for a key already present
groupSetNoMerge(m, row) == Append(m, [key |-> Get(row, kCountry), values |-> <<row>>])

\* one step of d3.group(rows, d => d.Country): the InternMap keeps its keys
\* in insertion order and appends the row to the array of its key
groupSet(m, row) ==
  LET c == Get(row, kCountry)
  IN  IF \E i \in 1..Len(m) : m[i].key = c
      THEN [i \in 1..Len(m) |->
              IF m[i].key = c THEN [key |-> c, values |-> Append(m[i].values, row)] ELSE m[i]]
      ELSE Append(m, [key |-> c, values |-> <<row>>])

\* d3.group(rows, d => d.Country), as the sequence of its [key, values] entries
RECURSIVE group(_)
group(rows) ==
  IF rows = <<>> THEN <<>>
  ELSE groupSet(group(SubSeq(rows, 1, Len(rows) - 1)), rows[Len(rows)])

\* find returning the last match instead of the first
findLast(values, type) ==
  IF \E i \in 1..Len(values) : Includes(Get(values[i], kIndicator), type)
  THEN CHOOSE i \in 1..Len(values) :
         /\ Includes(Get(values[i], kIndicator), type)
         /\ \A j \in (i + 1)..Len(values) : ~Includes(Get(values[j], kIndicator), type)
  ELSE 0

\* values.find(d => d.Indicator.includes(type)), as an index; 0 is undefined
find(values, type) ==
  IF \E i \in 1..Len(values) : Includes(Get(values[i], kIndicator), type)
  THEN CHOOSE i \in 1..Len(values) :
         /\ Includes(Get(values[i], kIndicator), type)
         /\ \A j \in 1..(i - 1) : ~Includes(Get(values[j], kIndicator), type)
  ELSE 0

\* yearValue without the || 0 default
yearValueNoDefault(row, year) ==
  [year |-> ToNumber(year), value |-> ToNumber(Get(row, year))]

\* { year: +year, value: +row[year] || 0 }
yearValue(row, year) ==
  [year |-> ToNumber(year), value |-> JsOr(ToNumber(Get(row, year)), Num(0))]

\* keys.map(year => ({...}))
mapYears(row, keys) == [i \in 1..Len(keys) |-> yearValue(row, keys[i])]

\* Object.keys(row).filter(key => !meta.includes(key)).map(year => ({...}))
yearlyValuesOf(row, meta) ==
  mapYears(row, SelectSeq(ObjectKeys(row), LAMBDA key : key \notin meta))

\* the object the map callback over the types returns, given the index i of
\* the row that find returned (0: undefined)
seriesOfFound(values, type, i, meta) ==
  IF i # 0
  THEN [type |-> type, yearlyValues |-> yearlyValuesOf(values[i], meta)]
  ELSE [type |-> type, yearlyValues |-> <<>>]

\* the disaster series of one type for the rows of one country
disasterSeries(values, type) ==
  seriesOfFound(values, type, find(values, type), disasterMetaKeys)

\* the carbon series of one type for the rows of one country
carbonSeries(values, type) ==
  seriesOfFound(values, type, find(values, type), carbonMetaKeys)

\* recordISO3 reading the last row of the group
recordISO3OfLastRow(values) == Get(values[Len(values)], kISO3)

\* ISO3: values[0].ISO3
recordISO3(values) == Get(values[1], kISO3)

\* Array.from(groupedData, ([country, values]) => ({...})) of the disaster getter
disasterRecords(groupedData) ==
  [g \in 1..Len(groupedData) |->
     [country |-> groupedData[g].key,
      ISO3 |-> recordISO3(groupedData[g].values),
      disasters |-> [t \in 1..Len(disasterTypes) |->
                       disasterSeries(groupedData[g].values, disasterTypes[t])]]]

\* Array.from(groupedData, ([country, values]) => ({...})) of the carbon getter
carbonRecords(groupedData) ==
  [g \in 1..Len(groupedData) |->
     [country |-> groupedData[g].key,
      ISO3 |-> recordISO3(groupedData[g].values),
      carbon |-> [t \in 1..Len(carbonTypes) |->
                    carbonSeries(groupedData[g].values, carbonTypes[t])]]]

\* the series with a non-empty yearlyValues only
matchedOnly(series) == SelectSeq(series, LAMBDA x : x.yearlyValues # <<>>)

\* disasterRecords keeping only the series of the types that matched a row
disasterRecordsDropUnmatched(groupedData) ==
  [g \in 1..Len(groupedData) |->
     [country |-> groupedData[g].key,
      ISO3 |-> recordISO3(groupedData[g].values),
      disasters |-> matchedOnly([t \in 1..Len(disasterTypes) |->
                                   disasterSeries(groupedData[g].values, disasterTypes[t])])]]

\* disastersByCountry without the series of the unmatched types
disastersByCountryDropsUnmatched(rows) ==
  IF Len(rows) = 0 THEN <<>> ELSE disasterRecordsDropUnmatched(group(rows))

\* getter disastersByCountry(state), as a function of state.disaster
disastersByCountry(rows) ==
  IF Len(rows) = 0 THEN <<>> ELSE disasterRecords(group(rows))

\* getter carbonByCountry(state), as a function of state.carbon
carbonByCountry(rows) ==
  IF Len(rows) = 0 THEN <<>> ELSE carbonRecords(group(rows))

\* ------------------------------------------------------------------------
\* The CSV files the two fetches read
\* ------------------------------------------------------------------------

sTest == <<"T", "e", "s", "t">>

sTST == <<"T", "S", "T">>

sChad == <<"C", "h", "a", "d">>

sTCD == <<"T", "C", "D">>

sNumberOfFloods == <<"N", "u", "m", "b", "e", "r", " ", "o", "f", " ", "F", "l", "o", "o", "d", "s">>

\* a row object of the disaster file: header Country, ISO2, ISO3, Indicator,
\* Unit, Source and the year columns 1990, 1991
DisasterRow(country, iso3, indicator, c1990, c1991) ==
  << [k |-> kCountry, v |-> country],
     [k |-> kISO2, v |-> SubSeq(iso3, 1, 2)],
     [k |-> kISO3, v |-> iso3],
     [k |-> kIndicator, v |-> indicator],
     [k |-> kUnit, v |-> <<"N">>],
     [k |-> kSource, v |-> <<"E">>],
     [k |-> <<"1", "9", "9", "0">>, v |-> c1990],
     [k |-> <<"1", "9", "9", "1">>, v |-> c1991] >>

\* a row object of the carbon file: header Country, ISO2, ISO3, Indicator and
\* the year columns 1991, 1992
CarbonRow(country, iso3, indicator, c1991, c1992) ==
  << [k |-> kCountry, v |-> country],
     [k |-> kISO2, v |-> SubSeq(iso3, 1, 2)],
     [k |-> kISO3, v |-> iso3],
     [k |-> kIndicator, v |-> indicator],
     [k |-> <<"1", "9", "9", "1">>, v |-> c1991],
     [k |-> <<"1", "9", "9", "2">>, v |-> c1992] >>

\* the disaster row {Country:"Test", ISO3:"TST", Indicator:"Number of Floods",
\* 1990:"2", 1991:"x"}
ExampleRow ==
  << [k |-> kCountry, v |-> sTest],
     [k |-> kISO3, v |-> sTST],
     [k |-> kIndicator, v |-> sNumberOfFloods],
     [k |-> <<"1", "9", "9", "0">>, v |-> <<"2">>],
     [k |-> <<"1", "9", "9", "1">>, v |-> <<"x">>] >>

\* a row object of a disaster file whose header is 1991, Source, Indicator,
\* 1990, ISO3, Unit, Country, ISO2
ShuffledDisasterRow(country, iso3, indicator, c1990, c1991) ==
  << [k |-> <<"1", "9", "9", "1">>, v |-> c1991],
     [k |-> kSource, v |-> <<"E">>],
     [k |-> kIndicator, v |-> indicator],
     [k |-> <<"1", "9", "9", "0">>, v |-> c1990],
     [k |-> kISO3, v |-> iso3],
     [k |-> kUnit, v |-> <<"N">>],
     [k |-> kCountry, v |-> country],
     [k |-> kISO2, v |-> SubSeq(iso3, 1, 2)] >>

\* (Country, ISO3) of the well-formed rows
CountryCodes == {<<sTest, sTST>>, <<sChad, sTCD>>}

\* the year cells of a row: numeric, not numeric, empty, several digits
CellPairs == {<< <<"2">>, <<"x">> >>, << <<>>, <<"1", "0">> >>}

\* the rows of the disaster tables: the well-formed ones and a row of one
\* country under the ISO3 of the other
DisasterRows ==
  {DisasterRow(p[1], p[2], ind, c[1], c[2]) :
     p \in CountryCodes, ind \in {sNumberOfFloods, tWildfire}, c \in CellPairs}
    \cup {DisasterRow(sChad, sTST, sNumberOfFloods, <<"2">>, <<"x">>)}

\* the rows of the carbon tables, likewise
CarbonRows ==
  {CarbonRow(p[1], p[2], ind, c[1], c[2]) :
     p \in CountryCodes, ind \in {tLandArea, tCarbonStocks}, c \in CellPairs}
    \cup {CarbonRow(sChad, sTST, tLandArea, <<"2">>, <<"x">>)}

\* rows of a disaster file with the shuffled header
ShuffledDisasterRows ==
  { ShuffledDisasterRow(sTest, sTST, sNumberOfFloods, <<"2">>, <<"x">>),
    ShuffledDisasterRow(sTest, sTST, tWildfire, <<>>, <<"1", "0">>),
    ShuffledDisasterRow(sChad, sTCD, sNumberOfFloods, <<"1", "0">>, <<"2">>) }

\* the tables of at most MaxRows rows
Tables(rows) == UNION {[1..n -> rows] : n \in 0..MaxRows}

\* file pairs for the getters: one of the two files is arbitrary, the other empty
GetterInputs ==
  {[d |-> t, c |-> <<>>] :
     t \in Tables(DisasterRows) \cup Tables(ShuffledDisasterRows) \cup {<<ExampleRow>>}}
    \cup {[d |-> <<>>, c |-> t] : t \in Tables(CarbonRows)}

\* two deployments of the file pair
FilesV1 ==
  [d |-> <<ExampleRow>>,
   c |-> <<CarbonRow(sTest, sTST, tLandArea, <<"2">>, <<"x">>)>>]

FilesV2 ==
  [d |-> <<DisasterRow(sChad, sTCD, tWildfire, <<>>, <<"1", "0">>),
           DisasterRow(sTest, sTST, tWildfire, <<"2">>, <<"x">>)>>,
   c |-> <<CarbonRow(sChad, sTCD, tCarbonStocks, <<>>, <<"1", "0">>)>>]

MainInputs == {FilesV1, FilesV2}

\* ------------------------------------------------------------------------
\* State
\* ------------------------------------------------------------------------

VARIABLES
  csv,                    \* the two CSV files as deployed: [d, c]
  disaster,               \* state.disaster
  carbon,                 \* state.carbon
  selectedDisasterTypes,  \* state.selectedDisasterTypes
  selectedCountries,      \* state.selectedCountries
  highlightedCountries,   \* state.highlightedCountries
  mouseOverCountry,       \* state.mouseOverCountry
  normalizeData,          \* state.normalizeData
  pc,                     \* position of each loadData call
  disasterData,           \* const disasterData of each loadData call
  carbonData,             \* const carbonData of each loadData call
  disasterFrom,           \* the call that assigned state.disaster (0: none)
  carbonFrom,             \* the call that assigned state.carbon (0: none)
  writers,                \* the calls that have assigned to the store
  stored,                 \* the store's tables when each call returned
  svgs,                   \* number of svg elements in the container of each chart
  mounted,                \* the charts whose onMounted has run to its end
  seen,                   \* the selection state when the watchers last ran
  timers                  \* pending timeouts of debounce, in the order they were set

\* the DOM of the chart components and their pending callbacks
domVars == <<svgs, mounted, seen, timers>>

vars ==
  <<csv, disaster, carbon, selectedDisasterTypes, selectedCountries,
    highlightedCountries, mouseOverCountry, normalizeData, pc, disasterData,
    carbonData, disasterFrom, carbonFrom, writers, stored, domVars>>

selectionVars ==
  <<selectedDisasterTypes, selectedCountries, highlightedCountries,
    mouseOverCountry, normalizeData>>

loadVars == <<pc, disasterData, carbonData, disasterFrom, carbonFrom, writers, stored>>

Calls == 1..NumCalls

\* the chart components, in the order App.vue mounts them
Charts == {"bar", "scatter", "forest", "series"}

\* state: () => ({...}), with no loadData call made yet
InitStore ==
  /\ disaster = <<>>
  /\ carbon = <<>>
  /\ selectedDisasterTypes = <<tFlood, tDrought, tLandslide, tExtremeTemperature, tStorm, tWildfire>>
  /\ selectedCountries = <<>>
  /\ highlightedCountries = <<>>
  /\ mouseOverCountry = <<>>
  /\ normalizeData = FALSE
  /\ pc = [c \in Calls |-> "idle"]
  /\ disasterData = [c \in Calls |-> <<>>]
  /\ carbonData = [c \in Calls |-> <<>>]
  /\ disasterFrom = 0
  /\ carbonFrom = 0
  /\ writers = {}
  /\ stored = [c \in Calls |-> [d |-> <<>>, c |-> <<>>]]
  /\ svgs = [k \in Charts |-> 0]
  /\ mounted = {}
  /\ seen = selectionVars
  /\ timers = <<>>

\* ------------------------------------------------------------------------
\* loadData
\* ------------------------------------------------------------------------

\* store.loadData() is called: the disaster file is requested
loadData(c) ==
  /\ pc[c] = "idle"
  /\ pc' = [pc EXCEPT ![c] = "awaitDisaster"]
  /\ UNCHANGED <<csv, domVars, disaster, carbon, selectionVars, disasterData, carbonData,
                 disasterFrom, carbonFrom, writers, stored>>

\* disasterCsvResolves assigning state.disaster at once
\* (this.disaster = await d3.csv(...))
disasterCsvResolvesAssigns(c) ==
  /\ pc[c] = "awaitDisaster"
  /\ disasterData' = [disasterData EXCEPT ![c] = csv.d]
  /\ disaster' = csv.d
  /\ disasterFrom' = c
  /\ writers' = writers \cup {c}
  /\ pc' = [pc EXCEPT ![c] = "awaitCarbon"]
  /\ UNCHANGED <<csv, domVars, carbon, selectionVars, carbonData, carbonFrom, stored>>

\* the first await resolves: disasterData is bound, the carbon file is requested
disasterCsvResolves(c) ==
  /\ pc[c] = "awaitDisaster"
  /\ disasterData' = [disasterData EXCEPT ![c] = csv.d]
  /\ pc' = [pc EXCEPT ![c] = "awaitCarbon"]
  /\ UNCHANGED <<csv, domVars, disaster, carbon, selectionVars, carbonData,
                 disasterFrom, carbonFrom, writers, stored>>

\* the first await rejects: loadData rejects
disasterCsvRejects(c) ==
  /\ pc[c] = "awaitDisaster"
  /\ pc' = [pc EXCEPT ![c] = "rejected"]
  /\ UNCHANGED <<csv, domVars, disaster, carbon, selectionVars, disasterData, carbonData,
                 disasterFrom, carbonFrom, writers, stored>>

\* carbonCsvResolves adding the fetched rows to the tables instead of
\* replacing the tables
carbonCsvResolvesAppends(c) ==
  /\ pc[c] = "awaitCarbon"
  /\ carbonData' = [carbonData EXCEPT ![c] = csv.c]
  /\ disaster' = disaster \o disasterData[c]
  /\ carbon' = carbon \o csv.c
  /\ disasterFrom' = c
  /\ carbonFrom' = c
  /\ writers' = writers \cup {c}
  /\ stored' = [stored EXCEPT ![c] = [d |-> disaster', c |-> carbon']]
  /\ pc' = [pc EXCEPT ![c] = "done"]
  /\ UNCHANGED <<csv, domVars, selectionVars, disasterData>>

\* the second await resolves: both tables are assigned and loadData returns
carbonCsvResolves(c) ==
  /\ pc[c] = "awaitCarbon"
  /\ carbonData' = [carbonData EXCEPT ![c] = csv.c]
  /\ disaster' = disasterData[c]
  /\ carbon' = csv.c
  /\ disasterFrom' = c
  /\ carbonFrom' = c
  /\ writers' = writers \cup {c}
  /\ stored' = [stored EXCEPT ![c] = [d |-> disaster', c |-> carbon']]
  /\ pc' = [pc EXCEPT ![c] = "done"]
  /\ UNCHANGED <<csv, domVars, selectionVars, disasterData>>

\* carbonCsvRejects keeping the half that was fetched (the disaster table is
\* assigned before the rejection is passed on)
carbonCsvRejectsKeepsHalf(c) ==
  /\ pc[c] = "awaitCarbon"
  /\ disaster' = disasterData[c]
  /\ disasterFrom' = c
  /\ writers' = writers \cup {c}
  /\ pc' = [pc EXCEPT ![c] = "rejected"]
  /\ UNCHANGED <<csv, domVars, carbon, selectionVars, disasterData, carbonData, carbonFrom, stored>>

\* the second await rejects: loadData rejects
carbonCsvRejects(c) ==
  /\ pc[c] = "awaitCarbon"
  /\ pc' = [pc EXCEPT ![c] = "rejected"]
  /\ UNCHANGED <<csv, domVars, disaster, carbon, selectionVars, disasterData, carbonData,
                 disasterFrom, carbonFrom, writers, stored>>

\* the files are replaced on the server between two fetches
Redeploy ==
  /\ \E f \in MainInputs \ {csv} : csv' = f
  /\ UNCHANGED <<disaster, carbon, selectionVars, loadVars, domVars>>

\* the c-th call of store.loadData(): the calls before it have been made
reload(c) ==
  /\ \A b \in 1..(c - 1) : pc[b] # "idle"
  /\ loadData(c)

\* ------------------------------------------------------------------------
\* Selection actions of the store
\* ------------------------------------------------------------------------

toggleNormalizeData ==
  /\ normalizeData' = ~normalizeData
  /\ UNCHANGED <<csv, domVars, disaster, carbon, selectedDisasterTypes, selectedCountries,
                 highlightedCountries, mouseOverCountry, loadVars>>

setSelectedCountries(countries) ==
  /\ selectedCountries' = countries
  /\ UNCHANGED <<csv, domVars, disaster, carbon, selectedDisasterTypes, highlightedCountries,
                 mouseOverCountry, normalizeData, loadVars>>

addHighlightedCountry(country) ==
  /\ highlightedCountries' = Append(highlightedCountries, country)
  /\ UNCHANGED <<csv, domVars, disaster, carbon, selectedDisasterTypes, selectedCountries,
                 mouseOverCountry, normalizeData, loadVars>>

\* removeHighlightedCountry taking out the first occurrence only
\* (splice(indexOf(country), 1))
removeHighlightedCountryFirstOnly(country) ==
  /\ highlightedCountries' =
       IF \E i \in 1..Len(highlightedCountries) : highlightedCountries[i] = country
       THEN [i \in 1..(Len(highlightedCountries) - 1) |->
               IF \E j \in 1..i : highlightedCountries[j] = country
               THEN highlightedCountries[i + 1]
               ELSE highlightedCountries[i]]
       ELSE highlightedCountries
  /\ UNCHANGED <<csv, domVars, disaster, carbon, selectedDisasterTypes, selectedCountries,
                 mouseOverCountry, normalizeData, loadVars>>

removeHighlightedCountry(country) ==
  /\ highlightedCountries' = SelectSeq(highlightedCountries, LAMBDA x : x # country)
  /\ UNCHANGED <<csv, domVars, disaster, carbon, selectedDisasterTypes, selectedCountries,
                 mouseOverCountry, normalizeData, loadVars>>

\* resetHighlightedCountries resetting the whole store (this.$reset()): the
\* tables go back to the empty arrays with the selection
resetHighlightedCountriesByStoreReset ==
  /\ highlightedCountries' = <<>>
  /\ disaster' = <<>>
  /\ carbon' = <<>>
  /\ selectedDisasterTypes' = <<tFlood, tDrought, tLandslide, tExtremeTemperature, tStorm, tWildfire>>
  /\ selectedCountries' = <<>>
  /\ mouseOverCountry' = <<>>
  /\ normalizeData' = FALSE
  /\ UNCHANGED <<csv, domVars, loadVars>>

resetHighlightedCountries ==
  /\ highlightedCountries' = <<>>
  /\ UNCHANGED <<csv, domVars, disaster, carbon, selectedDisasterTypes, selectedCountries,
                 mouseOverCountry, normalizeData, loadVars>>

addMouseOverCountry(country) ==
  /\ mouseOverCountry' = country
  /\ UNCHANGED <<csv, domVars, disaster, carbon, selectedDisasterTypes, selectedCountries,
                 highlightedCountries, normalizeData, loadVars>>

removeMouseOverCountry ==
  /\ mouseOverCountry' = <<>>
  /\ UNCHANGED <<csv, domVars, disaster, carbon, selectedDisasterTypes, selectedCountries,
                 highlightedCountries, normalizeData, loadVars>>

\* toggledTypes pushing the type whether it is selected or not
toggledTypesAlwaysPushes(selected, type) == Append(selected, type)

\* state.selectedDisasterTypes after toggleDisasterType(type): the type is
\* filtered out if included and pushed otherwise
toggledTypes(selected, type) ==
  IF \E i \in 1..Len(selected) : selected[i] = type
  THEN SelectSeq(selected, LAMBDA t : t # type)
  ELSE Append(selected, type)

toggleDisasterType(type) ==
  /\ selectedDisasterTypes' = toggledTypes(selectedDisasterTypes, type)
  /\ UNCHANGED <<csv, domVars, disaster, carbon, selectedCountries, highlightedCountries,
                 mouseOverCountry, normalizeData, loadVars>>

\* ------------------------------------------------------------------------
\* BarChartDisasters.vue: the data of createBarChart
\* ------------------------------------------------------------------------

sACQ == <<"A", "C", "Q">>

\* const disasterTypes = [...] of the chart: the six stacked types
barDisasterTypes == <<tFlood, tDrought, tLandslide, tExtremeTemperature, tStorm, tWildfire>>

\* the reduce with its accumulator left out of the sum
\* ((acc, val) => val.value || 0)
lastYearlyValue(yv) == IF yv = <<>> THEN Num(0) ELSE JsOr(yv[Len(yv)].value, Num(0))

\* yearlyValues.reduce((acc, val) => acc + (val.value || 0), 0)
RECURSIVE sumYearlyValues(_)
sumYearlyValues(yv) ==
  IF yv = <<>> THEN Num(0)
  ELSE NumAdd(sumYearlyValues(SubSeq(yv, 1, Len(yv) - 1)), JsOr(yv[Len(yv)].value, Num(0)))

\* the index arr.find(...) stops at, given the indices that satisfy its
\* predicate; 0 is undefined
firstIndex(S) == IF S = {} THEN 0 ELSE CHOOSE i \in S : \A j \in S : i <= j

\* yearlyValues.find(value => !isNaN(value.value))?.value
firstValue(yv, j) == IF j = 0 THEN Undefined ELSE yv[j].value

\* series.find(c => c.type === 'Land area')?.yearlyValues.find(...)?.value,
\* given the index t that the first find returned
landAreaOfSeries(series, t) ==
  IF t = 0 THEN Undefined
  ELSE firstValue(series[t].yearlyValues,
                  firstIndex({i \in 1..Len(series[t].yearlyValues) :
                                ~IsNaN(series[t].yearlyValues[i].value)}))

\* carbonCountry ? ... : null, given the index g of carbonCountry (0: undefined)
landAreaOfCountry(recs, g) ==
  IF g = 0 THEN Null
  ELSE landAreaOfSeries(recs[g].carbon,
                        firstIndex({i \in 1..Len(recs[g].carbon) : recs[g].carbon[i].type = tLandArea}))

\* carbon.value.find(c => c.ISO3 === iso3), as an index
findCarbonCountry(recs, iso3) == firstIndex({i \in 1..Len(recs) : recs[i].ISO3 = iso3})

\* const landArea = carbonCountry ? carbonCountry.carbon.find(c => c.type ===
\* 'Land area')?.yearlyValues.find(value => !isNaN(value.value))?.value : null
landAreaIn(recs, iso3) == landAreaOfCountry(recs, findCarbonCountry(recs, iso3))

\* landAreaMissing without the test for zero
landAreaMissingNoZero(area) == area = Null \/ area = Undefined

\* landArea === null || landArea === undefined || landArea === 0
landAreaMissing(area) == area = Null \/ area = Undefined \/ area = Num(0)

\* the result object of a country: its ISO3 and, by type, a value
resultObject(countryData, values) ==
  [ISO3 |-> countryData.ISO3,
   values |-> values,
   types |-> [t \in 1..Len(countryData.disasters) |-> countryData.disasters[t].type]]

\* result[key] = result[key]*100 / landArea, for every key but ISO3
normalizeResult(countryData, sums, area) ==
  IF landAreaMissing(area) THEN Null
  ELSE resultObject(countryData, [t \in 1..Len(sums) |-> NumDiv(NumMul(sums[t], Num(100)), area)])

\* the sums of the yearly values of the series of a country, by type
sumsOf(countryData) ==
  [t \in 1..Len(countryData.disasters) |-> sumYearlyValues(countryData.disasters[t].yearlyValues)]

\* the object the map callback returns for one country record, or Null
barResult(countryData, carbonRecs) ==
  IF normalizeData
  THEN normalizeResult(countryData, sumsOf(countryData), landAreaIn(carbonRecs, countryData.ISO3))
  ELSE resultObject(countryData, sumsOf(countryData))

\* d[type] || 0 of a result object (d[type] is undefined when the object
\* has no such key)
barValueOr0(d, type) ==
  IF \E t \in 1..Len(d.types) : d.types[t] = type
  THEN JsOr(d.values[CHOOSE t \in 1..Len(d.types) : d.types[t] = type], Num(0))
  ELSE Num(0)

\* types.reduce((acc, type) => acc + (d[type] || 0), 0)
RECURSIVE sumOfTypes(_, _)
sumOfTypes(d, types) ==
  IF types = <<>> THEN Num(0)
  ELSE NumAdd(sumOfTypes(d, SubSeq(types, 1, Len(types) - 1)), barValueOr0(d, types[Len(types)]))

\* x is an element of the array arr
InArray(arr, x) == \E i \in 1..Len(arr) : arr[i] = x

\* disasterTypes.filter(type => selectedDisasterTypes.value.includes(type))
filteredDisasterTypes ==
  SelectSeq(barDisasterTypes, LAMBDA type : InArray(selectedDisasterTypes, type))

\* data with the sum the comparator computes for each element
withSums(data, types) ==
  [i \in 1..Len(data) |-> [d |-> data[i], sum |-> sumOfTypes(data[i], types)]]

\* sorted with x inserted behind the elements whose sum is not less than its own
insertBySum(sorted, x) ==
  SelectSeq(sorted, LAMBDA y : ~NumLess(y.sum, x.sum)) \o <<x>>
    \o SelectSeq(sorted, LAMBDA y : NumLess(y.sum, x.sum))

\* the stable sort by descending sum
RECURSIVE sortPairs(_)
sortPairs(pairs) ==
  IF pairs = <<>> THEN <<>>
  ELSE insertBySum(sortPairs(SubSeq(pairs, 1, Len(pairs) - 1)), pairs[Len(pairs)])

dropSums(pairs) == [i \in 1..Len(pairs) |-> pairs[i].d]

\* transformedData.sort((a, b) => sumB - sumA)
sortBySum(data, types) == dropSums(sortPairs(withSums(data, types)))

\* filterCountries testing selectedCountries first (the two branches of the
\* if swapped)
filterCountriesSelectionFirst(data) ==
  IF Len(selectedCountries) > 0
  THEN SelectSeq(data, LAMBDA d : InArray(selectedCountries, d.ISO3))
  ELSE IF Len(highlightedCountries) > 0
  THEN SelectSeq(data, LAMBDA d : InArray(highlightedCountries, d.ISO3))
  ELSE data

\* the filter by highlightedCountries if not empty, else by
\* selectedCountries if not empty
filterCountries(data) ==
  IF Len(highlightedCountries) > 0
  THEN SelectSeq(data, LAMBDA d : InArray(highlightedCountries, d.ISO3))
  ELSE IF Len(selectedCountries) > 0
  THEN SelectSeq(data, LAMBDA d : InArray(selectedCountries, d.ISO3))
  ELSE data

\* disasters.value.filter(countryData => countryData.ISO3 !== "ACQ").map(...)
\*   .filter(d => d !== null)
mapCountries(recs, carbonRecs) ==
  SelectSeq([g \in 1..Len(recs) |-> barResult(recs[g], carbonRecs)], LAMBDA d : d # Null)

\* transformedData of createBarChart as it is stacked and drawn: mapped,
\* filtered by highlight or else by selection, and sorted
transformedData ==
  sortBySum(
    filterCountries(
      mapCountries(SelectSeq(disastersByCountry(disaster), LAMBDA countryData : countryData.ISO3 # sACQ),
                   carbonByCountry(carbon))),
    filteredDisasterTypes)

\* the ISO3 of the bars drawn
barCountries(data) == [i \in 1..Len(data) |-> data[i].ISO3]

\* click on a bar of the disaster bar chart: the country's highlight is
\* removed if it is highlighted and added otherwise
barClick(iso3) ==
  /\ InArray(barCountries(transformedData), iso3)
  /\ IF InArray(highlightedCountries, iso3)
     THEN removeHighlightedCountry(iso3)
     ELSE addHighlightedCountry(iso3)

\* ------------------------------------------------------------------------
\* BarChartDisasters.vue, second component: the data of createScatterplot
\* ------------------------------------------------------------------------

\* disasterCountry.disasters.filter(disaster =>
\*   selectedDisasterTypes.value.includes(disaster.type))
selectedSeries(series) == SelectSeq(series, LAMBDA x : InArray(selectedDisasterTypes, x.type))

\* the entries the two nested forEach visit, in the order they visit them
RECURSIVE visitedEntries(_)
visitedEntries(series) ==
  IF series = <<>> THEN <<>>
  ELSE visitedEntries(SubSeq(series, 1, Len(series) - 1)) \o series[Len(series)].yearlyValues

\* if (!yearlyDisasters[year]) yearlyDisasters[year] = 0;
\* yearlyDisasters[year] += value, on the object as a sequence of [year, total]
addToYear(acc, entry) ==
  IF \E i \in 1..Len(acc) : acc[i].year = entry.year
  THEN [i \in 1..Len(acc) |->
          IF acc[i].year = entry.year
          THEN [year |-> entry.year, total |-> NumAdd(JsOr(acc[i].total, Num(0)), entry.value)]
          ELSE acc[i]]
  ELSE Append(acc, [year |-> entry.year, total |-> NumAdd(Num(0), entry.value)])

\* const yearlyDisasters = {} after the forEach
RECURSIVE aggregateByYear(_)
aggregateByYear(entries) ==
  IF entries = <<>> THEN <<>>
  ELSE addToYear(aggregateByYear(SubSeq(entries, 1, Len(entries) - 1)), entries[Len(entries)])

\* Object.values(yearlyDisasters).reduce((acc, val) => acc + val, 0)
RECURSIVE sumTotals(_)
sumTotals(acc) ==
  IF acc = <<>> THEN Num(0)
  ELSE NumAdd(sumTotals(SubSeq(acc, 1, Len(acc) - 1)), acc[Len(acc)].total)

\* const totalDisasters of a disaster record
totalDisastersOf(countryData) ==
  sumTotals(aggregateByYear(visitedEntries(selectedSeries(countryData.disasters))))

\* validYears.reduce((acc, val) => acc + val.value, 0)
RECURSIVE reduceValues(_)
reduceValues(yv) ==
  IF yv = <<>> THEN Num(0)
  ELSE NumAdd(reduceValues(SubSeq(yv, 1, Len(yv) - 1)), yv[Len(yv)].value)

\* carbon.find(c => c.type === type), as an index into the series of a record
findSeries(series, type) == firstIndex({i \in 1..Len(series) : series[i].type = type})

\* validYears with the upper end of the range left open
scatterValidYearsNoUpperEnd(series, t) ==
  IF t = 0 THEN <<>>
  ELSE SelectSeq(series[t].yearlyValues,
                 LAMBDA val : ~IsNaN(val.value) /\ NumGeq(val.year, Num(1992)))

\* const validYears = carbonStocks ? carbonStocks.yearlyValues
\*   .filter(val => !isNaN(val.value))
\*   .filter(({ year }) => year >= 1992 && year <= 2020) : [],
\* given the index t of carbonStocks in the series (0: undefined)
scatterValidYears(series, t) ==
  IF t = 0 THEN <<>>
  ELSE SelectSeq(series[t].yearlyValues,
                 LAMBDA val : ~IsNaN(val.value) /\ NumGeq(val.year, Num(1992))
                                /\ NumLeq(val.year, Num(2020)))

\* const meanCarbonStocks = totalYears > 0 ? totalCarbonStocks / totalYears : 0
meanOfValid(valid) ==
  IF Len(valid) > 0 THEN NumDiv(reduceValues(valid), Num(Len(valid))) ELSE Num(0)

\* meanCarbonStocks of the scatterplot, given the index g of carbonCountry
\* (0: undefined, carbonStocks is null)
scatterMeanCarbonStocks(recs, g) ==
  IF g = 0 THEN meanOfValid(<<>>)
  ELSE meanOfValid(scatterValidYears(recs[g].carbon, findSeries(recs[g].carbon, tCarbonStocks)))

\* forestExtent.yearlyValues.filter(v => !isNaN(v.year) && !isNaN(v.value)),
\* given the index t of forestExtent in the series
validYearlyValues(series, t) ==
  IF t = 0 THEN <<>>
  ELSE SelectSeq(series[t].yearlyValues, LAMBDA v : ~IsNaN(v.year) /\ ~IsNaN(v.value))

\* lastMinus100 reading the first entry
firstMinus100(valid) ==
  IF Len(valid) > 0 THEN NumAdd(valid[1].value, Num(-100)) ELSE Num(-100)

\* validYearlyValues.length > 0
\*   ? validYearlyValues[validYearlyValues.length - 1].value - 100 : -100
lastMinus100(valid) ==
  IF Len(valid) > 0 THEN NumAdd(valid[Len(valid)].value, Num(-100)) ELSE Num(-100)

\* const forestExtentIndex, given the index g of carbonCountry
forestExtentIndexOf(recs, g) ==
  IF g = 0 THEN lastMinus100(<<>>)
  ELSE lastMinus100(validYearlyValues(recs[g].carbon, findSeries(recs[g].carbon, tIndexForestExtent)))

\* normalizeData.value ? x*10 / landArea : x
scatterNormalized(x, area) ==
  IF normalizeData THEN NumDiv(NumMul(x, Num(10)), area) ELSE x

\* the object the map callback returns for a disaster record, or Null
scatterDatum(countryData, total, mean, index, area) ==
  IF landAreaMissing(area) THEN Null
  ELSE [ISO3 |-> countryData.ISO3,
        country |-> countryData.country,
        totalDisasters |-> scatterNormalized(total, area),
        meanCarbonStocks |-> scatterNormalized(mean, area),
        forestExtentIndex |-> index,
        countrySize |-> area]

scatterResult(countryData, recs, g) ==
  scatterDatum(countryData, totalDisastersOf(countryData), scatterMeanCarbonStocks(recs, g),
               forestExtentIndexOf(recs, g), landAreaOfCountry(recs, g))

\* disasters.value.filter(...).map(...).filter(d => d !== null)
scatterMap(recs, carbonRecs) ==
  SelectSeq([i \in 1..Len(recs) |->
               scatterResult(recs[i], carbonRecs, findCarbonCountry(carbonRecs, recs[i].ISO3))],
            LAMBDA d : d # Null)

\* if (selectedCountries.value && selectedCountries.value.length > 0)
\*   combinedData = combinedData.filter(d => selectedCountries.value.includes(d.ISO3))
scatterFilter(data) ==
  IF Len(selectedCountries) > 0
  THEN SelectSeq(data, LAMBDA d : InArray(selectedCountries, d.ISO3))
  ELSE data

\* combinedData before the filter by selectedCountries
mappedData ==
  scatterMap(SelectSeq(disastersByCountry(disaster), LAMBDA countryData : countryData.ISO3 # sACQ),
             carbonByCountry(carbon))

\* combinedData of createScatterplot as it is drawn
combinedData == scatterFilter(mappedData)

\* s is t with some elements left out
RECURSIVE IsSubsequence(_, _)
IsSubsequence(s, t) ==
  IF s = <<>> THEN TRUE
  ELSE IF t = <<>> THEN FALSE
  ELSE IF s[1] = t[1] THEN IsSubsequence(Tail(s), Tail(t))
  ELSE IsSubsequence(s, Tail(t))

\* a zoom whose debounced call is made: zoomedCountries are the dots inside
\* the zoomed area, in the order of the data, and differ from the selection
zoom(zoomedCountries) ==
  /\ IsSubsequence(zoomedCountries, barCountries(mappedData))
  /\ zoomedCountries # selectedCountries
  /\ setSelectedCountries(zoomedCountries)

\* click on a dot: the country's highlight is removed if it is highlighted
\* and added otherwise, then store.removeMouseOverCountry()
dotClick(iso3) ==
  /\ InArray(barCountries(combinedData), iso3)
  /\ highlightedCountries' =
       IF InArray(highlightedCountries, iso3)
       THEN SelectSeq(highlightedCountries, LAMBDA x : x # iso3)
       ELSE Append(highlightedCountries, iso3)
  /\ mouseOverCountry' = <<>>
  /\ UNCHANGED <<csv, domVars, disaster, carbon, selectedDisasterTypes, selectedCountries,
                 normalizeData, loadVars>>

\* the timeouts after a new createScatterplot(): each call makes a new
\* debounce closure, and no clearTimeout reaches the timeouts of the old ones
Stale(pending) ==
  [i \in 1..Len(pending) |-> [pending[i] EXCEPT !.live = FALSE]]

\* click on the svg of the scatterplot, outside the dots:
\* store.setSelectedCountries([]); store.resetHighlightedCountries([]);
\* then the svg is removed and createScatterplot() draws a new one
svgClick ==
  /\ selectedCountries' = <<>>
  /\ highlightedCountries' = <<>>
  /\ timers' = Stale(timers)
  /\ UNCHANGED <<csv, svgs, mounted, seen, disaster, carbon, selectedDisasterTypes,
                 mouseOverCountry, normalizeData, loadVars>>

\* ------------------------------------------------------------------------
\* BarChartForest.vue: the data of createBarChart
\* ------------------------------------------------------------------------

sWLD == <<"W", "L", "D">>

sG20 == <<"G", "2", "0">>

sEMDETMP == <<"E", "M", "D", "E", "T", "M", "P">>

sAETMP == <<"A", "E", "T", "M", "P">>

sAMETMP == <<"A", "M", "E", "T", "M", "P">>

sAFRTMP == <<"A", "F", "R", "T", "M", "P">>

sEMU == <<"E", "M", "U">>

sG7 == <<"G", "7">>

sASIATMP == <<"A", "S", "I", "A", "T", "M", "P">>

sOCETMP == <<"O", "C", "E", "T", "M", "P">>

\* the ISO3 values the filters compare with: groups and regions
regionCodes == {sWLD, sG20, sEMDETMP, sAETMP, sAMETMP, sAFRTMP, sEMU, sG7, sASIATMP, sOCETMP}

\* const validYearlyValues = carbonStocks ? carbonStocks.yearlyValues
\*   .filter(val => !isNaN(val.value))
\*   .filter(({ year }) => year >= 1992 && year <= 2020) : [],
\* given the index t of carbonStocks in the series
forestValidYearlyValues(series, t) ==
  IF t = 0 THEN <<>>
  ELSE SelectSeq(series[t].yearlyValues,
                 LAMBDA val : ~IsNaN(val.value) /\ NumGeq(val.year, Num(1992))
                                /\ NumLeq(val.year, Num(2020)))

\* const meanCarbonStocks = totalYears > 0
\*   ? validYearlyValues.reduce((acc, val) => acc + val.value, 0) / totalYears : 0
forestMeanOfValid(valid) ==
  IF Len(valid) > 0 THEN NumDiv(reduceValues(valid), Num(Len(valid))) ELSE Num(0)

\* meanCarbonStocks of the forest bar chart for a carbon record
forestMeanCarbonStocks(countryData) ==
  forestMeanOfValid(forestValidYearlyValues(countryData.carbon,
                                            findSeries(countryData.carbon, tCarbonStocks)))

\* forestAreaShare && forestAreaShare.yearlyValues.length > 0
\*   ? forestAreaShare.yearlyValues.reduce(...) / forestAreaShare.yearlyValues.length : 0,
\* given the index t of forestAreaShare in the series
meanForestAreaShareOf(series, t) ==
  IF t # 0 /\ Len(series[t].yearlyValues) > 0
  THEN NumDiv(reduceValues(series[t].yearlyValues), Num(Len(series[t].yearlyValues)))
  ELSE Num(0)

\* normalizeData.value ? meanCarbonStocks * 100 / landArea : meanCarbonStocks
forestNormalized(x, area) ==
  IF normalizeData THEN NumDiv(NumMul(x, Num(100)), area) ELSE x

\* the object the map callback returns for a carbon record, or Null
forestDatum(countryData, mean, share, area) ==
  IF landAreaMissing(area) THEN Null
  ELSE [ISO3 |-> countryData.ISO3,
        normalizedCarbonStocks |-> forestNormalized(mean, area),
        meanForestAreaShare |-> share]

forestResult(countryData) ==
  forestDatum(countryData, forestMeanCarbonStocks(countryData),
              meanForestAreaShareOf(countryData.carbon, findSeries(countryData.carbon, tShareForestArea)),
              landAreaOfSeries(countryData.carbon, findSeries(countryData.carbon, tLandArea)))

\* filteredCarbonData.map(...).filter(d => d !== null)
forestMap(recs) ==
  SelectSeq([i \in 1..Len(recs) |-> forestResult(recs[i])], LAMBDA d : d # Null)

\* sorted with x inserted behind the elements that are not greater than it
insertByCarbon(sorted, x) ==
  SelectSeq(sorted, LAMBDA y : ~NumLess(x.normalizedCarbonStocks, y.normalizedCarbonStocks))
    \o <<x>>
    \o SelectSeq(sorted, LAMBDA y : NumLess(x.normalizedCarbonStocks, y.normalizedCarbonStocks))

\* transformedData.sort((a, b) => a.normalizedCarbonStocks - b.normalizedCarbonStocks)
RECURSIVE sortByCarbon(_)
sortByCarbon(data) ==
  IF data = <<>> THEN <<>>
  ELSE insertByCarbon(sortByCarbon(SubSeq(data, 1, Len(data) - 1)), data[Len(data)])

\* the filter of the forest bar chart by highlightedCountries if not empty,
\* else by selectedCountries if not empty
forestFilterCountries(data) ==
  IF Len(highlightedCountries) > 0
  THEN SelectSeq(data, LAMBDA d : InArray(highlightedCountries, d.ISO3))
  ELSE IF Len(selectedCountries) > 0
  THEN SelectSeq(data, LAMBDA d : InArray(selectedCountries, d.ISO3))
  ELSE data

\* transformedData of the forest bar chart as it is drawn
forestData ==
  sortByCarbon(
    forestMap(
      forestFilterCountries(
        SelectSeq(carbonByCountry(carbon), LAMBDA countryData : countryData.ISO3 \notin regionCodes))))

\* ------------------------------------------------------------------------
\* TimeSeries.vue: the data of createTimeSeriesChart
\* ------------------------------------------------------------------------

\* the predicate of carbon.value.filter(...): && binds tighter than ||, so
\* it reads (selected && no highlight) || (highlighted && not a region)
timeSeriesKeeps(iso3) ==
  \/ /\ (Len(selectedCountries) = 0 \/ InArray(selectedCountries, iso3))
     /\ Len(highlightedCountries) = 0
  \/ /\ InArray(highlightedCountries, iso3)
     /\ iso3 \notin regionCodes

\* const filteredCarbonData
filteredCarbonData == SelectSeq(carbonByCountry(carbon), LAMBDA countryData : timeSeriesKeeps(countryData.ISO3))

\* highlightedCountries.value.length < 10 && highlightedCountries.value.length > 0
individualLines == Len(highlightedCountries) < 10 /\ Len(highlightedCountries) > 0

\* the entries of a Carbon stocks series that reach yearlyCarbonData:
\* 1992 <= year <= 2020, and neither value nor year is NaN
countedEntries(series, t) ==
  IF t = 0 THEN <<>>
  ELSE SelectSeq(series[t].yearlyValues,
                 LAMBDA e : NumGeq(e.year, Num(1992)) /\ NumLeq(e.year, Num(2020))
                              /\ ~IsNaN(e.value) /\ ~IsNaN(e.year))

\* the entries all filtered countries contribute, in the order of the forEach
RECURSIVE allCountedEntries(_)
allCountedEntries(recs) ==
  IF recs = <<>> THEN <<>>
  ELSE allCountedEntries(SubSeq(recs, 1, Len(recs) - 1))
         \o countedEntries(recs[Len(recs)].carbon, findSeries(recs[Len(recs)].carbon, tCarbonStocks))

\* yearlyCarbonData[year].total += value; yearlyCarbonData[year].count += 1
addToYearlyCarbon(acc, entry) ==
  IF \E i \in 1..Len(acc) : acc[i].year = entry.year
  THEN [i \in 1..Len(acc) |->
          IF acc[i].year = entry.year
          THEN [year |-> entry.year, total |-> NumAdd(acc[i].total, entry.value), count |-> acc[i].count + 1]
          ELSE acc[i]]
  ELSE Append(acc, [year |-> entry.year, total |-> NumAdd(Num(0), entry.value), count |-> 1])

\* const yearlyCarbonData = {} after the forEach
RECURSIVE yearlyCarbonDataOf(_)
yearlyCarbonDataOf(entries) ==
  IF entries = <<>> THEN <<>>
  ELSE addToYearlyCarbon(yearlyCarbonDataOf(SubSeq(entries, 1, Len(entries) - 1)), entries[Len(entries)])

\* Object.keys(yearlyCarbonData).filter(year => !isNaN(year)).map(year => ({...}));
\* the order of the keys has no part in what follows but the first element
meanCarbonStockDataOf(yearly) ==
  [i \in 1..Len(yearly) |->
     [year |-> yearly[i].year,
      meanCarbonStock |-> NumDiv(yearly[i].total, Num(yearly[i].count))]]

\* const meanCarbonStockData of the mean line
meanCarbonStockData == meanCarbonStockDataOf(yearlyCarbonDataOf(allCountedEntries(filteredCarbonData)))

\* createTimeSeriesChart run on the store as it is: "drawn", or "TypeError"
\* when the mean line is drawn and meanCarbonStockData[0] is undefined
\* (yScaleCarbon(meanCarbonStockData[0].meanCarbonStock))
createTimeSeriesChart ==
  IF individualLines THEN "drawn"
  ELSE IF Len(meanCarbonStockData) = 0 THEN "TypeError"
  ELSE "drawn"

\* the disaster records processDisasterData is called with
processedDisasters ==
  IF Len(highlightedCountries) > 0
  THEN SelectSeq(disastersByCountry(disaster), LAMBDA countryData : InArray(highlightedCountries, countryData.ISO3))
  ELSE IF Len(selectedCountries) > 0
  THEN SelectSeq(disastersByCountry(disaster), LAMBDA countryData : InArray(selectedCountries, countryData.ISO3))
  ELSE disastersByCountry(disaster)

\* click on the black dot of a highlighted bar of the disaster bar chart
blackDotClick(iso3) ==
  /\ InArray(barCountries(transformedData), iso3)
  /\ InArray(highlightedCountries, iso3)
  /\ removeHighlightedCountry(iso3)

\* click on a bar of the forest bar chart
forestBarClick(iso3) ==
  /\ InArray(barCountries(forestData), iso3)
  /\ IF InArray(highlightedCountries, iso3)
     THEN removeHighlightedCountry(iso3)
     ELSE addHighlightedCountry(iso3)

\* the files of the bar chart runs: two countries with disasters, and the
\* carbon tables that give them a land area, a zero one, an empty Land area
\* series, or no record
BarCarbonTables ==
  { <<>>,
    <<CarbonRow(sTest, sTST, tLandArea, <<"2">>, <<"x">>)>>,
    <<CarbonRow(sTest, sTST, tLandArea, <<>>, <<"1", "0">>),
      CarbonRow(sChad, sTCD, tLandArea, <<"2">>, <<"x">>)>>,
    <<CarbonRow(sTest, sTST, tCarbonStocks, <<"2">>, <<"x">>),
      CarbonRow(sChad, sTCD, tLandArea, <<"-", "2">>, <<"x">>)>>,
    <<CarbonRow(sTest, sTST, tLandArea, <<"1", "0">>, <<>>),
      CarbonRow(sChad, sTCD, tLandArea, <<"x">>, <<"2">>)>>,
    <<CarbonRow(sTest, sTST, tLandArea, <<"2">>, <<"x">>),
      CarbonRow(sChad, sTCD, tLandArea, <<"1", "0">>, <<>>)>> }

BarDisasterTables ==
  { <<DisasterRow(sTest, sTST, sNumberOfFloods, <<"2">>, <<"1", "0">>),
      DisasterRow(sChad, sTCD, tWildfire, <<"x">>, <<"2">>)>>,
    <<DisasterRow(sChad, sTCD, sNumberOfFloods, <<>>, <<>>),
      DisasterRow(sTest, sTST, tWildfire, <<"2">>, <<"2">>),
      DisasterRow(sTest, sTST, sNumberOfFloods, <<"1", "0">>, <<"x">>)>> }

BarChartInputs == {[d |-> dt, c |-> ct] : dt \in BarDisasterTables, ct \in BarCarbonTables}

\* the selections a zoom of the scatterplot can set
ZoomSelections == {<<>>, <<sTST>>, <<sTCD>>, <<sTST, sTCD>>}

\* ------------------------------------------------------------------------
\* ControlPanel.vue: the search field
\* ------------------------------------------------------------------------

\* longest highlightedCountries the search is run on
MaxHighlighted == 3

\* the timeouts of debounce that are pending at a time
MaxTimers == 2

\* Array.from(new Set(store.carbon.filter(country =>
\*   country.ISO3.includes(query)).map(country => country.ISO3)))[0],
\* as the index of the first raw row that matches; 0 is undefined
firstFound(rows, query) ==
  firstIndex({i \in 1..Len(rows) : Includes(Get(rows[i], kISO3), query)})

\* the input event of the search field with searchQuery as typed: at least
\* three characters, and a row of store.carbon whose ISO3 contains them in
\* upper case; the ISO3 of the first such row is pushed
searchCountry(searchQuery) ==
  /\ Len(highlightedCountries) < MaxHighlighted
  /\ ~(Len(searchQuery) < 3)
  /\ firstFound(carbon, ToUpperCase(searchQuery)) # 0
  /\ addHighlightedCountry(Get(carbon[firstFound(carbon, ToUpperCase(searchQuery))], kISO3))

\* what is typed into the search field in the runs
SearchQueries == {<<"t", "s", "t">>, <<"T", "C", "D">>, <<"t", "c">>, <<"x", "y", "z">>}

\* the legend rows clicked in the runs of the selection
SelectionLegendClicks == {tFlood, tStorm, tWildfire}

\* a row object of a carbon file with the year columns 1991, 1992, 2020, 2021
WideCarbonRow(country, iso3, indicator, c1991, c1992, c2020, c2021) ==
  << [k |-> kCountry, v |-> country],
     [k |-> kISO2, v |-> SubSeq(iso3, 1, 2)],
     [k |-> kISO3, v |-> iso3],
     [k |-> kIndicator, v |-> indicator],
     [k |-> <<"1", "9", "9", "1">>, v |-> c1991],
     [k |-> <<"1", "9", "9", "2">>, v |-> c1992],
     [k |-> <<"2", "0", "2", "0">>, v |-> c2020],
     [k |-> <<"2", "0", "2", "1">>, v |-> c2021] >>

sWorld == <<"W", "o", "r", "l", "d">>

\* the carbon files of the runs of the four views: both countries with a
\* land area and carbon stocks; a country with a land area only and one
\* without; cells that are empty; the rows of the region WLD beside a
\* country with a share of forest area; no rows
ViewCarbonTables ==
  { << WideCarbonRow(sTest, sTST, tLandArea, <<"1", "0">>, <<"1", "0">>, <<"1", "0">>, <<"1", "0">>),
       WideCarbonRow(sTest, sTST, tCarbonStocks, <<"5">>, <<"2">>, <<"1">>, <<"7">>),
       WideCarbonRow(sTest, sTST, tIndexForestExtent, <<"1", "0", "0">>, <<"9", "8">>, <<"9", "5">>, <<"9", "0">>),
       WideCarbonRow(sChad, sTCD, tLandArea, <<"2">>, <<"2">>, <<"2">>, <<"2">>),
       WideCarbonRow(sChad, sTCD, tCarbonStocks, <<"x">>, <<>>, <<"4">>, <<"9">>) >>,
    << WideCarbonRow(sTest, sTST, tLandArea, <<"1", "0">>, <<"1", "0">>, <<"1", "0">>, <<"1", "0">>),
       WideCarbonRow(sChad, sTCD, tCarbonStocks, <<"3">>, <<"3">>, <<"3">>, <<"3">>) >>,
    << WideCarbonRow(sTest, sTST, tLandArea, <<"5">>, <<"5">>, <<"5">>, <<"5">>),
       WideCarbonRow(sTest, sTST, tCarbonStocks, <<"5">>, <<>>, <<>>, <<"7">>),
       WideCarbonRow(sTest, sTST, tIndexForestExtent, <<"x">>, <<"9", "8">>, <<>>, <<>>),
       WideCarbonRow(sChad, sTCD, tIndexForestExtent, <<"9", "0">>, <<"1", "1", "0">>, <<"1", "0", "5">>, <<"x">>),
       WideCarbonRow(sChad, sTCD, tLandArea, <<"4">>, <<"4">>, <<"4">>, <<"4">>) >>,
    << WideCarbonRow(sWorld, sWLD, tCarbonStocks, <<"8">>, <<"8">>, <<"6">>, <<"6">>),
       WideCarbonRow(sWorld, sWLD, tLandArea, <<"2", "0">>, <<"2", "0">>, <<"2", "0">>, <<"2", "0">>),
       WideCarbonRow(sTest, sTST, tLandArea, <<"5">>, <<"5">>, <<"5">>, <<"5">>),
       WideCarbonRow(sTest, sTST, tShareForestArea, <<"3", "0">>, <<"4", "0">>, <<"5", "0">>, <<"6", "0">>) >>,
    <<>> }

ViewInputs == {[d |-> dt, c |-> ct] : dt \in BarDisasterTables, ct \in ViewCarbonTables}

\* the legend rows clicked in the runs of the views
LegendClicks == {tFlood}

\* ------------------------------------------------------------------------
\* Specifications
\* ------------------------------------------------------------------------

Init == csv \in MainInputs /\ InitStore

Next ==
  \/ \E c \in Calls : loadData(c)
  \/ \E c \in Calls : disasterCsvResolves(c)
  \/ \E c \in Calls : disasterCsvRejects(c)
  \/ \E c \in Calls : carbonCsvResolves(c)
  \/ \E c \in Calls : carbonCsvRejects(c)
  \/ Redeploy

\* the store under overlapping loadData calls and changing files
Spec == Init /\ [][Next]_vars

NextReload ==
  \/ \E c \in Calls : reload(c)
  \/ \E c \in Calls : disasterCsvResolves(c)
  \/ \E c \in Calls : disasterCsvRejects(c)
  \/ \E c \in Calls : carbonCsvResolves(c)
  \/ \E c \in Calls : carbonCsvRejects(c)
  \/ Redeploy

\* the store under overlapping loadData calls made in the order of their
\* numbers
SpecReload == Init /\ [][NextReload]_vars

InitGetters == csv \in GetterInputs /\ InitStore

NextGetters ==
  \/ loadData(1)
  \/ disasterCsvResolves(1)
  \/ disasterCsvRejects(1)
  \/ carbonCsvResolves(1)
  \/ carbonCsvRejects(1)

\* the getters over every table of the bounded inputs, loaded by one call
SpecGetters == InitGetters /\ [][NextGetters]_vars

InitBarChart == csv \in BarChartInputs /\ InitStore

NextBarChart ==
  \/ loadData(1)
  \/ disasterCsvResolves(1)
  \/ disasterCsvRejects(1)
  \/ carbonCsvResolves(1)
  \/ carbonCsvRejects(1)
  \/ toggleNormalizeData
  \/ \E iso3 \in {sTST, sTCD} : barClick(iso3)
  \/ \E countries \in ZoomSelections : setSelectedCountries(countries)

\* the disaster bar chart over loaded data under the selection actions
SpecBarChart == InitBarChart /\ [][NextBarChart]_vars

InitViews == csv \in ViewInputs /\ InitStore

NextViews ==
  \/ loadData(1)
  \/ disasterCsvResolves(1)
  \/ disasterCsvRejects(1)
  \/ carbonCsvResolves(1)
  \/ carbonCsvRejects(1)
  \/ toggleNormalizeData
  \/ \E type \in LegendClicks : toggleDisasterType(type)
  \/ \E iso3 \in {sTST, sTCD} : barClick(iso3)
  \/ \E iso3 \in {sTST, sTCD} : blackDotClick(iso3)
  \/ \E iso3 \in {sTST, sTCD} : forestBarClick(iso3)
  \/ \E iso3 \in {sTST, sTCD} : dotClick(iso3)
  \/ \E countries \in ZoomSelections : zoom(countries)
  \/ svgClick

\* the four views over loaded data under the events of the user
SpecViews == InitViews /\ [][NextViews]_vars

\* the files of the runs of the selection
SelectionInputs == MainInputs \cup {f \in ViewInputs : Len(f.c) = 2}

InitSelection == csv \in SelectionInputs /\ InitStore

NextSelection ==
  \/ loadData(1)
  \/ disasterCsvResolves(1)
  \/ disasterCsvRejects(1)
  \/ carbonCsvResolves(1)
  \/ carbonCsvRejects(1)
  \/ \E type \in SelectionLegendClicks : toggleDisasterType(type)
  \/ \E searchQuery \in SearchQueries : searchCountry(searchQuery)
  \/ \E iso3 \in {sTST, sTCD} : barClick(iso3)
  \/ \E iso3 \in {sTST, sTCD} : blackDotClick(iso3)
  \/ \E iso3 \in {sTST, sTCD} : forestBarClick(iso3)
  \/ \E iso3 \in {sTST, sTCD} : dotClick(iso3)
  \/ svgClick

\* the selection state under the events of the control panel and the charts
SpecSelection == InitSelection /\ [][NextSelection]_vars

NextStore ==
  \/ loadData(1)
  \/ disasterCsvResolves(1)
  \/ disasterCsvRejects(1)
  \/ carbonCsvResolves(1)
  \/ carbonCsvRejects(1)
  \/ \E type \in LegendClicks : toggleDisasterType(type)
  \/ \E countries \in ZoomSelections : setSelectedCountries(countries)
  \/ \E country \in {sTST, sTCD} :
       Len(highlightedCountries) < MaxHighlighted /\ addHighlightedCountry(country)
  \/ \E country \in {sTST, sTCD} : removeHighlightedCountry(country)
  \/ resetHighlightedCountries
  \/ toggleNormalizeData
  \/ \E country \in {sTST} : addMouseOverCountry(country)
  \/ removeMouseOverCountry

\* the store under one loadData call and every selection action
SpecStore == InitSelection /\ [][NextStore]_vars

\* ------------------------------------------------------------------------
\* Mounting, watchers and timeouts of the chart components
\* ------------------------------------------------------------------------

\* the loadData call of each chart's onMounted: App.vue mounts its children
\* in the order of its template, and each onMounted calls store.loadData()
chartCall == [bar |-> 1, scatter |-> 2, forest |-> 3, series |-> 4]

\* the values watch([...]) of chart k reads out of the selection state s
Watched(k, s) ==
  CASE k = "bar" -> <<s[1], s[2], s[3], s[4], s[5]>>
    [] k = "scatter" -> <<s[1], s[3], s[5]>>
    [] k = "forest" -> <<s[2], s[3], s[4], s[5]>>
    [] k = "series" -> <<s[1], s[2], s[3]>>

\* the charts whose watcher has a changed value to react to
Triggered == {k \in Charts : Watched(k, seen) # Watched(k, selectionVars)}

\* d3.select(chart.value).select('svg').remove() takes the first svg out,
\* if there is one, and the create function appends one
redrawn(n) == IF n = 0 THEN 1 ELSE n

\* watchers whose create function would sort the rows of the store in place
flushWatchersSortsRows ==
  /\ Triggered # {}
  /\ svgs' = [k \in Charts |-> IF k \in Triggered THEN redrawn(svgs[k]) ELSE svgs[k]]
  /\ seen' = selectionVars
  /\ timers' = IF "scatter" \in Triggered THEN Stale(timers) ELSE timers
  /\ disaster' = IF disaster = <<>> THEN disaster ELSE Tail(disaster) \o <<Head(disaster)>>
  /\ UNCHANGED <<csv, mounted, carbon, selectionVars, loadVars>>

\* the callbacks of the watchers, run together once the event handler that
\* changed the store has returned
flushWatchers ==
  /\ Triggered # {}
  /\ svgs' = [k \in Charts |-> IF k \in Triggered THEN redrawn(svgs[k]) ELSE svgs[k]]
  /\ seen' = selectionVars
  /\ timers' = IF "scatter" \in Triggered THEN Stale(timers) ELSE timers
  /\ UNCHANGED <<csv, mounted, disaster, carbon, selectionVars, loadVars>>

\* onMounted after its await: the create function appends an svg to the
\* container; nothing is removed before
onMountedContinues(k) ==
  /\ k \notin mounted
  /\ chartCall[k] \in Calls
  /\ pc[chartCall[k]] = "done"
  /\ svgs' = [svgs EXCEPT ![k] = @ + 1]
  /\ mounted' = mounted \cup {k}
  /\ timers' = IF k = "scatter" THEN Stale(timers) ELSE timers
  /\ UNCHANGED <<csv, seen, disaster, carbon, selectionVars, loadVars>>

\* no watcher and no onMounted is waiting to run: both run before the next
\* event, response or timeout is handled
Quiet ==
  /\ Triggered = {}
  /\ \A k \in Charts : chartCall[k] \in Calls /\ pc[chartCall[k]] = "done" => k \in mounted

\* every onMounted has made its call: they all run when the page is set up
AllCalled == \A c \in Calls : pc[c] # "idle"

NextMount ==
  \/ \E c \in Calls : reload(c)
  \/ Quiet /\ \E c \in Calls : disasterCsvResolves(c)
  \/ Quiet /\ \E c \in Calls : disasterCsvRejects(c)
  \/ Quiet /\ \E c \in Calls : carbonCsvResolves(c)
  \/ Quiet /\ \E c \in Calls : carbonCsvRejects(c)
  \/ Quiet /\ AllCalled /\ toggleDisasterType(tFlood)
  \/ Quiet /\ AllCalled /\ toggleNormalizeData
  \/ flushWatchers
  \/ \E k \in Charts : onMountedContinues(k)

\* the page from its set up on, under clicks in the control panel
SpecMount == Init /\ [][NextMount]_vars

\* the zoom handler of the scatterplot: zoomedCountries are the dots inside
\* the zoomed area; if they differ from the selection, the debounced call
\* clears the timeout of this createScatterplot() and sets a new one
zoomed(zoomedCountries) ==
  /\ svgs["scatter"] > 0
  /\ Len(timers) < MaxTimers
  /\ IsSubsequence(zoomedCountries, barCountries(mappedData))
  /\ zoomedCountries # selectedCountries
  /\ timers' = Append(SelectSeq(timers, LAMBDA t : ~t.live),
                      [countries |-> zoomedCountries, live |-> TRUE])
  /\ UNCHANGED <<csv, svgs, mounted, seen, disaster, carbon, selectionVars, loadVars>>

\* a timeout of debounce runs, 5000 ms after it was set:
\* store.setSelectedCountries(zoomedCountries)
timeoutFires ==
  /\ timers # <<>>
  /\ selectedCountries' = timers[1].countries
  /\ timers' = Tail(timers)
  /\ UNCHANGED <<csv, svgs, mounted, seen, disaster, carbon, selectedDisasterTypes,
                 highlightedCountries, mouseOverCountry, normalizeData, loadVars>>

NextZoom ==
  \/ loadData(chartCall["scatter"])
  \/ Quiet /\ disasterCsvResolves(chartCall["scatter"])
  \/ Quiet /\ disasterCsvRejects(chartCall["scatter"])
  \/ Quiet /\ carbonCsvResolves(chartCall["scatter"])
  \/ Quiet /\ carbonCsvRejects(chartCall["scatter"])
  \/ onMountedContinues("scatter")
  \/ flushWatchers
  \/ Quiet /\ \E zoomedCountries \in ZoomSelections : zoomed(zoomedCountries)
  \/ Quiet /\ timeoutFires
  \/ Quiet /\ svgs["scatter"] > 0 /\ svgClick

\* the scatterplot under zooms, their timeouts and clicks on its background
SpecZoom == InitViews /\ [][NextZoom]_vars

\* ------------------------------------------------------------------------
\* Vocabulary of the claims about the getters
\* ------------------------------------------------------------------------

\* the Country values of a table
CountriesOf(rows) == {Get(rows[i], kCountry) : i \in 1..Len(rows)}

\* the rows of one country, in table order
RowsOfCountry(rows, country) == SelectSeq(rows, LAMBDA r : Get(r, kCountry) = country)

\* position of the first row of a country in the table
FirstSeen(rows, country) ==
  CHOOSE i \in 1..Len(rows) :
    /\ Get(rows[i], kCountry) = country
    /\ \A j \in 1..(i - 1) : Get(rows[j], kCountry) # country

\* the positions of the rows of a country whose Indicator contains the type
Matches(rows, country, type) ==
  {i \in 1..Len(rows) :
     Get(rows[i], kCountry) = country /\ Includes(Get(rows[i], kIndicator), type)}

\* the first such row
MatchedRow(rows, country, type) ==
  rows[CHOOSE i \in Matches(rows, country, type) :
         \A j \in Matches(rows, country, type) : i <= j]

\* the columns of a row the getter reads as years
SeriesKeys(row, meta) == SelectSeq(ObjectKeys(row), LAMBDA key : key \notin meta)

\* the series of a record of either collection
SeriesOf(rec) == IF "disasters" \in DOMAIN rec THEN rec.disasters ELSE rec.carbon

\* the property holds of both derived collections
BothCollections(P(_, _, _, _)) ==
  /\ P(disaster, disastersByCountry(disaster), disasterTypes, disasterMetaKeys)
  /\ P(carbon, carbonByCountry(carbon), carbonTypes, carbonMetaKeys)

\* ------------------------------------------------------------------------
\* Claims
\* ------------------------------------------------------------------------

OneSeriesPerType(rows, recs, types, meta) ==
  /\ \A country \in CountriesOf(rows) : \E g \in 1..Len(recs) : recs[g].country = country
  /\ \A g \in 1..Len(recs) :
       /\ Len(SeriesOf(recs[g])) = Len(types)
       /\ \A t \in 1..Len(types) :
            /\ SeriesOf(recs[g])[t].type = types[t]
            /\ Matches(rows, recs[g].country, types[t]) = {}
                 => SeriesOf(recs[g])[t].yearlyValues = <<>>

\* C1: every country of the raw rows has a record, and every record holds
\* exactly one series per known type in the order of the type list (the 7
\* disaster types, the 6 carbon types); a type with no matching row has an
\* empty yearlyValues.
C1_OneSeriesPerKnownType ==
  /\ BothCollections(OneSeriesPerType)
  /\ disasterTypes = <<tDrought, tExtremeTemperature, tFlood, tLandslide, tStorm, tTOTAL, tWildfire>>
  /\ carbonTypes = <<tCarbonStocks, tForestArea, tIndexCarbon, tIndexForestExtent, tLandArea, tShareForestArea>>

\* a record with a matched type and an unmatched one, in each collection
C1_Witness ==
  /\ pc[1] = "done"
  /\ \/ \E g \in 1..Len(disastersByCountry(disaster)) :
          /\ disastersByCountry(disaster)[g].disasters[3].yearlyValues # <<>>
          /\ disastersByCountry(disaster)[g].disasters[7].yearlyValues = <<>>
     \/ \E g \in 1..Len(carbonByCountry(carbon)) :
          /\ carbonByCountry(carbon)[g].carbon[5].yearlyValues # <<>>
          /\ carbonByCountry(carbon)[g].carbon[1].yearlyValues = <<>>

\* the value the claim gives a cell: 0 when not a number, else the number
CellValue(cell) == IF IsNaN(ToNumber(cell)) THEN Num(0) ELSE ToNumber(cell)

ValuesAreNumbers(rows, recs, types, meta) ==
  \A g \in 1..Len(recs) : \A t \in 1..Len(types) :
    LET yv == SeriesOf(recs[g])[t].yearlyValues
    IN  /\ \A j \in 1..Len(yv) : ~IsNaN(yv[j].value)
        /\ Matches(rows, recs[g].country, types[t]) # {} =>
             LET row == MatchedRow(rows, recs[g].country, types[t])
                 keys == SeriesKeys(row, meta)
             IN  /\ Len(yv) = Len(keys)
                 /\ \A j \in 1..Len(keys) : yv[j].value = CellValue(Get(row, keys[j]))

\* C2: every value of every series of both collections is a number and not
\* NaN: an empty or unparseable cell gives 0, a parseable cell its number.
C2_ValuesNeverNaN == BothCollections(ValuesAreNumbers)

\* a series holding a parsed value and a defaulted one
C2_Witness ==
  /\ pc[1] = "done"
  /\ \E g \in 1..Len(disastersByCountry(disaster)) :
       LET yv == disastersByCountry(disaster)[g].disasters[3].yearlyValues
       IN  Len(yv) = 2 /\ yv[1].value = Num(2) /\ yv[2].value = Num(0)
             /\ Get(MatchedRow(disaster, disastersByCountry(disaster)[g].country, tFlood),
                    <<"1", "9", "9", "1">>) = <<"x">>

FirstMatchWins(rows, recs, types, meta) ==
  \A g \in 1..Len(recs) : \A t \in 1..Len(types) :
    SeriesOf(recs[g])[t].yearlyValues =
      IF Matches(rows, recs[g].country, types[t]) = {} THEN <<>>
      ELSE yearlyValuesOf(MatchedRow(rows, recs[g].country, types[t]), meta)

\* C3: the series of a type is built from the first row, in row order, of
\* the country whose Indicator contains the type; the single row {Test, TST,
\* "Number of Floods", 1990:"2", 1991:"x"} gives Flood = [{1990,2},{1991,0}]
\* and an empty Wildfire series.
C3_FirstMatchingRow ==
  /\ BothCollections(FirstMatchWins)
  /\ disaster = <<ExampleRow>> =>
       /\ disastersByCountry(disaster)[1].disasters[3] =
            [type |-> tFlood,
             yearlyValues |-> << [year |-> Num(1990), value |-> Num(2)],
                                 [year |-> Num(1991), value |-> Num(0)] >>]
       /\ disastersByCountry(disaster)[1].disasters[7] =
            [type |-> tWildfire, yearlyValues |-> <<>>]

\* a country with two rows matching Flood whose cells differ
C3_Witness ==
  /\ pc[1] = "done"
  /\ \E i, j \in Matches(disaster, sTest, tFlood) :
       /\ i < j
       /\ yearlyValuesOf(disaster[i], disasterMetaKeys) # yearlyValuesOf(disaster[j], disasterMetaKeys)

YearsAreColumns(rows, recs, types, meta) ==
  \A g \in 1..Len(recs) : \A t \in 1..Len(types) :
    LET yv == SeriesOf(recs[g])[t].yearlyValues
    IN  \A j \in 1..Len(yv) :
          /\ IsFinite(yv[j].year) /\ yv[j].year.d = 1
          /\ \E i \in Matches(rows, recs[g].country, types[t]) :
               \E p \in 1..Len(rows[i]) :
                 IsArrayIndex(rows[i][p].k) /\ ToNumber(rows[i][p].k) = yv[j].year

\* C4: every entry of every series of both collections has an integer year
\* that is the label of a year column of the country's row; no entry is
\* produced for a column that is not a year.
C4_YearsAreYearColumns == BothCollections(YearsAreColumns)

\* the part of C4 the disaster getter satisfies
C4_DisasterYearsAreYearColumns ==
  YearsAreColumns(disaster, disastersByCountry(disaster), disasterTypes, disasterMetaKeys)

GroupingKeepsRows(rows, recs, types, meta) ==
  LET m == group(rows)
  IN  /\ {m[i].key : i \in 1..Len(m)} = CountriesOf(rows)
      /\ \A i, j \in 1..Len(m) : i < j =>
           /\ m[i].key # m[j].key
           /\ FirstSeen(rows, m[i].key) < FirstSeen(rows, m[j].key)
      /\ \A i \in 1..Len(m) : m[i].values = RowsOfCountry(rows, m[i].key)
      /\ Len(recs) = Len(m)
      /\ \A i \in 1..Len(m) : recs[i].country = m[i].key

\* C9: grouping gives one record per distinct Country, in first-seen order,
\* and the group of a country holds all its rows in their original order:
\* no row is dropped or deduplicated.
C9_GroupingKeepsRowsAndOrder == BothCollections(GroupingKeepsRows)

\* a table where a country's rows are interleaved with another's and one
\* row occurs twice
C9_Witness ==
  /\ pc[1] = "done"
  /\ Len(disaster) = 3
  /\ disaster[1] = disaster[3]
  /\ Get(disaster[2], kCountry) # Get(disaster[1], kCountry)
  /\ Len(disastersByCountry(disaster)) = 2

UniqueISO3(rows, recs, types, meta) ==
  \A i, j \in 1..Len(recs) : i # j => recs[i].ISO3 # recs[j].ISO3

\* the raw rows give different countries different ISO3 codes
CodesIdentifyCountries(rows) ==
  \A i, j \in 1..Len(rows) :
    Get(rows[i], kCountry) # Get(rows[j], kCountry) => Get(rows[i], kISO3) # Get(rows[j], kISO3)

UniqueISO3IfCodesIdentify(rows, recs, types, meta) ==
  CodesIdentifyCountries(rows) => UniqueISO3(rows, recs, types, meta)

\* C10 as stated: no two records of a collection have the same ISO3, for
\* any raw rows.
C10_UniqueISO3AnyRows == BothCollections(UniqueISO3)

\* C10, amended: no two records of a collection have the same ISO3 when no
\* two raw rows of different Country carry the same ISO3.
C10_UniqueISO3 == BothCollections(UniqueISO3IfCodesIdentify)

\* two records, one of a country with several rows, under distinct codes
C10_Witness ==
  /\ pc[1] = "done"
  /\ CodesIdentifyCountries(disaster)
  /\ Len(disaster) = 3
  /\ Len(disastersByCountry(disaster)) = 2

ISO3OfFirstRow(rows, recs, types, meta) ==
  \A g \in 1..Len(recs) :
    recs[g].ISO3 = Get(rows[FirstSeen(rows, recs[g].country)], kISO3)

\* C11: the ISO3 of a record is the ISO3 of the first raw row of its
\* Country, also when later rows of the Country carry another ISO3.
C11_ISO3OfFirstRow == BothCollections(ISO3OfFirstRow)

\* a country whose first row and a later row carry different ISO3 codes
C11_Witness ==
  /\ pc[1] = "done"
  /\ \E i, j \in 1..Len(disaster) :
       /\ i < j
       /\ Get(disaster[i], kCountry) = Get(disaster[j], kCountry)
       /\ Get(disaster[i], kISO3) # Get(disaster[j], kISO3)
       /\ i = FirstSeen(disaster, Get(disaster[i], kCountry))
       /\ \E g \in 1..Len(disastersByCountry(disaster)) :
            /\ disastersByCountry(disaster)[g].country = Get(disaster[i], kCountry)
            /\ disastersByCountry(disaster)[g].ISO3 = Get(disaster[i], kISO3)

\* the orders of n columns tried against the order of the file: reversed,
\* rotated, and with two neighbours exchanged
ColumnOrders(n) ==
  {[i \in 1..n |-> n + 1 - i]}
    \cup {[i \in 1..n |-> ((i + k - 1) % n) + 1] : k \in 1..(n - 1)}
    \cup {[i \in 1..n |-> IF i = k THEN k + 1 ELSE IF i = k + 1 THEN k ELSE i] : k \in 1..(n - 1)}

\* the row object of the same record when the file has its columns in order p
WithColumnOrder(row, p) == [i \in 1..Len(row) |-> row[p[i]]]

AscendingYears(yv) == \A j \in 1..(Len(yv) - 1) : NumLess(yv[j].year, yv[j + 1].year)

RECURSIVE SumOfValues(_)
SumOfValues(yv) == IF yv = <<>> THEN Num(0) ELSE NumAdd(yv[1].value, SumOfValues(Tail(yv)))

\* the carbon records of an ISO3
CarbonRecordsOf(iso3) ==
  {g \in 1..Len(carbonByCountry(carbon)) : carbonByCountry(carbon)[g].ISO3 = iso3}

\* the Land area series of the first carbon record of an ISO3
LandAreaSeries(iso3) ==
  LET g == CHOOSE g \in CarbonRecordsOf(iso3) : \A h \in CarbonRecordsOf(iso3) : g <= h
  IN  carbonByCountry(carbon)[g].carbon[5].yearlyValues

\* the country has a land-area value and it is not zero
HasLandArea(iso3) ==
  /\ CarbonRecordsOf(iso3) # {}
  /\ LandAreaSeries(iso3) # <<>>
  /\ LandAreaSeries(iso3)[1].value # Num(0)

\* the country passes the highlight / selection filter of the chart
PassesCountryFilter(iso3) ==
  IF highlightedCountries # <<>> THEN InArray(highlightedCountries, iso3)
  ELSE IF selectedCountries # <<>> THEN InArray(selectedCountries, iso3)
  ELSE TRUE

\* C5: with normalizeData on, the disaster bar chart holds no country whose
\* land-area value is null, undefined or zero (a country absent from the
\* carbon collection included); every other country that passes the country
\* filter is in the chart, each of its per-type values is sum * 100 /
\* landArea, and no value is Infinity or NaN.
C5_NormalizedBarsSkipMissingArea ==
  normalizeData =>
    /\ \A i \in 1..Len(transformedData) :
         LET d == transformedData[i]
         IN  /\ HasLandArea(d.ISO3)
             /\ \A t \in 1..Len(d.values) : IsFinite(d.values[t])
             /\ \E g \in 1..Len(disastersByCountry(disaster)) :
                  LET rec == disastersByCountry(disaster)[g]
                  IN  /\ rec.ISO3 = d.ISO3
                      /\ Len(d.values) = Len(rec.disasters)
                      /\ \A t \in 1..Len(rec.disasters) :
                           /\ d.types[t] = rec.disasters[t].type
                           /\ NumMul(d.values[t], LandAreaSeries(d.ISO3)[1].value)
                                = NumMul(SumOfValues(rec.disasters[t].yearlyValues), Num(100))
    /\ \A g \in 1..Len(disastersByCountry(disaster)) :
         LET iso3 == disastersByCountry(disaster)[g].ISO3
         IN  HasLandArea(iso3) /\ PassesCountryFilter(iso3) /\ iso3 # sACQ
               => \E i \in 1..Len(transformedData) : transformedData[i].ISO3 = iso3

\* normalization is on, one of two countries is dropped for its land area
\* and the other is drawn with a value that is not zero
C5_Witness ==
  /\ normalizeData
  /\ pc[1] = "done"
  /\ highlightedCountries = <<>>
  /\ selectedCountries = <<>>
  /\ Len(disastersByCountry(disaster)) = 2
  /\ Len(transformedData) = 1
  /\ \E g \in 1..2 : ~HasLandArea(disastersByCountry(disaster)[g].ISO3)
  /\ \E t \in 1..7 : transformedData[1].values[t] # Num(0)

\* C14: the per-type total of the disaster bar chart for a country is the
\* sum of all the values of the yearlyValues of that type's series, and 0
\* for an empty series; [{2000,5},{2001,3}] sums to 8.
C14_BarTotalIsSumOfValues ==
  /\ ~normalizeData =>
       \A i \in 1..Len(transformedData) :
         \E g \in 1..Len(disastersByCountry(disaster)) :
           /\ disastersByCountry(disaster)[g].ISO3 = transformedData[i].ISO3
           /\ \A t \in 1..Len(disasterTypes) :
                /\ transformedData[i].types[t] = disasterTypes[t]
                /\ transformedData[i].values[t] =
                     SumOfValues(disastersByCountry(disaster)[g].disasters[t].yearlyValues)
                /\ disastersByCountry(disaster)[g].disasters[t].yearlyValues = <<>>
                     => transformedData[i].values[t] = Num(0)
  /\ sumYearlyValues(<<>>) = Num(0)
  /\ sumYearlyValues(<< [year |-> Num(2000), value |-> Num(5)],
                        [year |-> Num(2001), value |-> Num(3)] >>) = Num(8)

\* a bar whose Flood total adds two values that are not zero and whose
\* Drought series is empty
C14_Witness ==
  /\ ~normalizeData
  /\ pc[1] = "done"
  /\ \E i \in 1..Len(transformedData) :
       /\ transformedData[i].values[3] = Num(12)
       /\ transformedData[i].values[1] = Num(0)
       /\ \E g \in 1..Len(disastersByCountry(disaster)) :
            /\ disastersByCountry(disaster)[g].ISO3 = transformedData[i].ISO3
            /\ Len(disastersByCountry(disaster)[g].disasters[3].yearlyValues) = 2
            /\ disastersByCountry(disaster)[g].disasters[1].yearlyValues = <<>>

\* ------------------------------------------------------------------------
\* Claims about the derived metrics of the views
\* ------------------------------------------------------------------------

\* the entry has a year from 1992 to 2020
YearIn1992To2020(e) ==
  /\ IsFinite(e.year)
  /\ 1992 * e.year.d <= e.year.n
  /\ e.year.n <= 2020 * e.year.d

\* the arithmetic mean of the values of the entries of 1992 to 2020, 0 when
\* there is none
MeanOver1992To2020(yv) ==
  IF SelectSeq(yv, YearIn1992To2020) = <<>> THEN Num(0)
  ELSE NumDiv(SumOfValues(SelectSeq(yv, YearIn1992To2020)),
              Num(Len(SelectSeq(yv, YearIn1992To2020))))

\* the first carbon record of an ISO3
CarbonRecordOf(iso3) ==
  carbonByCountry(carbon)[CHOOSE g \in CarbonRecordsOf(iso3) : \A h \in CarbonRecordsOf(iso3) : g <= h]

\* a carbon record whose Carbon stocks series is [{1990,10},{2000,20},{2010,30}]
ExampleCarbonRecord ==
  [country |-> sTest, ISO3 |-> sTST,
   carbon |-> << [type |-> tCarbonStocks,
                  yearlyValues |-> << [year |-> Num(1990), value |-> Num(10)],
                                      [year |-> Num(2000), value |-> Num(20)],
                                      [year |-> Num(2010), value |-> Num(30)] >>] >>]

\* C13: the mean carbon stock the scatterplot and the forest bar chart
\* compute for a country is the arithmetic mean of the Carbon stocks
\* values of the entries with 1992 <= year <= 2020 and 0 when there is no
\* such entry or no Carbon stocks row; the two views compute the same mean
\* for the same country; [{1990,10},{2000,20},{2010,30}] gives 25.
C13_MeanCarbonStocks ==
  /\ \A g \in 1..Len(carbonByCountry(carbon)) :
       /\ scatterMeanCarbonStocks(carbonByCountry(carbon), g)
            = MeanOver1992To2020(carbonByCountry(carbon)[g].carbon[1].yearlyValues)
       /\ forestMeanCarbonStocks(carbonByCountry(carbon)[g])
            = scatterMeanCarbonStocks(carbonByCountry(carbon), g)
  /\ scatterMeanCarbonStocks(carbonByCountry(carbon), 0) = Num(0)
  /\ scatterMeanCarbonStocks(<<ExampleCarbonRecord>>, 1) = Num(25)
  /\ forestMeanCarbonStocks(ExampleCarbonRecord) = Num(25)
  /\ ~normalizeData =>
       /\ \A i \in 1..Len(mappedData) :
            mappedData[i].meanCarbonStocks
              = MeanOver1992To2020(CarbonRecordOf(mappedData[i].ISO3).carbon[1].yearlyValues)
       /\ \A i \in 1..Len(forestData) :
            forestData[i].normalizedCarbonStocks
              = MeanOver1992To2020(CarbonRecordOf(forestData[i].ISO3).carbon[1].yearlyValues)

\* both views show a country whose mean, 3/2, is over two of the four
\* entries of its series, and the scatterplot shows one whose mean is 0
C13_Witness ==
  /\ ~normalizeData
  /\ pc[1] = "done"
  /\ selectedCountries = <<>>
  /\ \E i \in 1..Len(combinedData) : \E j \in 1..Len(forestData) :
       /\ combinedData[i].ISO3 = forestData[j].ISO3
       /\ combinedData[i].meanCarbonStocks = Rat(3, 2)
       /\ forestData[j].normalizedCarbonStocks = Rat(3, 2)
       /\ Len(CarbonRecordOf(combinedData[i].ISO3).carbon[1].yearlyValues) > 2

\* the positions of the entries whose year and value are numbers
NumericEntries(yv) == {j \in 1..Len(yv) : IsFinite(yv[j].year) /\ IsFinite(yv[j].value)}

\* the value of the entry of the latest year minus 100, or -100 when no
\* entry has a numeric year and value
LatestValueMinus100(yv) ==
  IF NumericEntries(yv) = {} THEN Num(-100)
  ELSE NumAdd(yv[CHOOSE j \in NumericEntries(yv) :
                   \A k \in NumericEntries(yv) : ~NumLess(yv[j].year, yv[k].year)].value,
              Num(-100))

\* C15: the forestExtentIndex of a dot is the value of the entry of the
\* latest year of the country's Index of forest extent series, entries with
\* a non-numeric year or value dropped, minus 100; it is -100 when the
\* series is empty and when the country has no carbon record.
C15_ForestExtentIndex ==
  /\ \A i \in 1..Len(mappedData) :
       mappedData[i].forestExtentIndex
         = LatestValueMinus100(CarbonRecordOf(mappedData[i].ISO3).carbon[4].yearlyValues)
  /\ \A g \in 1..Len(carbonByCountry(carbon)) :
       /\ carbonByCountry(carbon)[g].carbon[4].type = tIndexForestExtent
       /\ forestExtentIndexOf(carbonByCountry(carbon), g)
            = LatestValueMinus100(carbonByCountry(carbon)[g].carbon[4].yearlyValues)
       /\ carbonByCountry(carbon)[g].carbon[4].yearlyValues = <<>>
            => forestExtentIndexOf(carbonByCountry(carbon), g) = Num(-100)
  /\ forestExtentIndexOf(carbonByCountry(carbon), 0) = Num(-100)

\* a dot with the index -10 of a series of four years that ends with an
\* entry without a year, beside a dot with -100 for an empty series
C15_Witness ==
  /\ pc[1] = "done"
  /\ \E i, j \in 1..Len(mappedData) :
       /\ mappedData[i].forestExtentIndex = Num(-10)
       /\ Len(CarbonRecordOf(mappedData[i].ISO3).carbon[4].yearlyValues) = 5
       /\ IsNaN(CarbonRecordOf(mappedData[i].ISO3).carbon[4].yearlyValues[5].year)
       /\ mappedData[j].forestExtentIndex = Num(-100)
       /\ CarbonRecordOf(mappedData[j].ISO3).carbon[4].yearlyValues = <<>>

\* the Share of forest area series of the first carbon record of an ISO3
ShareSeries(iso3) ==
  CarbonRecordOf(iso3).carbon[CHOOSE t \in 1..Len(carbonTypes) : carbonTypes[t] = tShareForestArea].yearlyValues

\* the entries of a series whose year is a number
YearEntries(yv) == SelectSeq(yv, LAMBDA e : IsFinite(e.year))

\* the arithmetic mean of the values of the entries with a numeric year, 0
\* when there is none
MeanOverYears(yv) ==
  IF YearEntries(yv) = <<>> THEN Num(0)
  ELSE NumDiv(SumOfValues(YearEntries(yv)), Num(Len(YearEntries(yv))))

\* C28: the meanForestAreaShare of a bar of the forest bar chart is the
\* arithmetic mean of the country's Share of forest area values over the
\* year columns of its row, and 0 when the series is empty.
C28_MeanForestAreaShare ==
  \A k \in 1..Len(forestData) :
    forestData[k].meanForestAreaShare = MeanOverYears(ShareSeries(forestData[k].ISO3))

\* ------------------------------------------------------------------------
\* Claims about the country filters of the views
\* ------------------------------------------------------------------------

\* the country has a disaster record and a land area that is not zero, and
\* is no group or region
HasDataAndArea(iso3) ==
  /\ \E g \in 1..Len(disastersByCountry(disaster)) : disastersByCountry(disaster)[g].ISO3 = iso3
  /\ HasLandArea(iso3)
  /\ iso3 # sACQ
  /\ iso3 \notin regionCodes

\* the country is highlighted and outside a selection that is not empty
HighlightedOutsideSelection(iso3) ==
  /\ InArray(highlightedCountries, iso3)
  /\ selectedCountries # <<>>
  /\ ~InArray(selectedCountries, iso3)

\* C16: a highlighted country with data and a land area that is not zero
\* is in the data of the disaster bar chart, the scatterplot, the forest bar
\* chart and the time series when selectedCountries is not empty and does
\* not contain it.
C16_HighlightedShownInAllViews ==
  \A iso3 \in {sTST, sTCD} :
    HighlightedOutsideSelection(iso3) /\ HasDataAndArea(iso3) =>
      /\ InArray(barCountries(transformedData), iso3)
      /\ InArray(barCountries(combinedData), iso3)
      /\ InArray(barCountries(forestData), iso3)
      /\ InArray(barCountries(filteredCarbonData), iso3)
      /\ InArray(barCountries(processedDisasters), iso3)

\* the part of C16 that holds: the two bar charts and the time series
C16_HighlightedShownOutsideScatterplot ==
  \A iso3 \in {sTST, sTCD} :
    HighlightedOutsideSelection(iso3) /\ HasDataAndArea(iso3) =>
      /\ InArray(barCountries(transformedData), iso3)
      /\ InArray(barCountries(forestData), iso3)
      /\ InArray(barCountries(filteredCarbonData), iso3)
      /\ InArray(barCountries(processedDisasters), iso3)

\* C24: the carbon data of the time series (filteredCarbonData) never holds
\* the record of an aggregate region (WLD, G20, EMDETMP, AETMP, AMETMP,
\* AFRTMP, EMU, G7, ASIATMP, OCETMP), whatever selectedCountries and
\* highlightedCountries are.
C24_TimeSeriesHasNoRegion ==
  \A i \in 1..Len(filteredCarbonData) : filteredCarbonData[i].ISO3 \notin regionCodes

\* the elements of an array, as a set
ElementsOf(arr) == {arr[i] : i \in 1..Len(arr)}

\* the countries of a view's data that pass the filter
PassingCountries(data) == {iso3 \in ElementsOf(barCountries(data)) : PassesCountryFilter(iso3)}

\* C25: the countries of the disaster bar chart, of the forest bar chart and
\* of the disaster totals of the time series are those of the unfiltered
\* data that are highlighted if highlightedCountries is not empty, else
\* those that are selected if selectedCountries is not empty, else all.
C25_FilterPrecedence ==
  /\ ElementsOf(barCountries(transformedData))
       = PassingCountries(mapCountries(SelectSeq(disastersByCountry(disaster),
                                                 LAMBDA countryData : countryData.ISO3 # sACQ),
                                       carbonByCountry(carbon)))
  /\ ElementsOf(barCountries(forestData))
       = PassingCountries(forestMap(SelectSeq(carbonByCountry(carbon),
                                              LAMBDA countryData : countryData.ISO3 \notin regionCodes)))
  /\ ElementsOf(barCountries(processedDisasters)) = PassingCountries(disastersByCountry(disaster))

\* TST is highlighted, TCD alone is selected, and the three views show TST
\* alone
C25_Witness ==
  /\ highlightedCountries = <<sTST>>
  /\ selectedCountries = <<sTCD>>
  /\ barCountries(transformedData) = <<sTST>>
  /\ barCountries(forestData) = <<sTST>>
  /\ barCountries(processedDisasters) = <<sTST>>
  /\ Len(disastersByCountry(disaster)) = 2

\* ------------------------------------------------------------------------
\* Claims about the selection state
\* ------------------------------------------------------------------------

\* C17: highlightedCountries never holds the same ISO3 twice, after any
\* sequence of bar, dot and black-dot clicks, search input events and
\* clicks on the background of the scatterplot.
C17_HighlightedHasNoDuplicates ==
  \A i, j \in 1..Len(highlightedCountries) :
    i # j => highlightedCountries[i] # highlightedCountries[j]

\* C18: toggleDisasterType(t) flips the membership of t in
\* selectedDisasterTypes and of no other type, and a second call with the
\* same t gives back the set of types selected before the first.
C18_ToggleFlipsMembership ==
  \A type \in ElementsOf(barDisasterTypes) :
    /\ InArray(toggledTypes(selectedDisasterTypes, type), type)
         <=> ~InArray(selectedDisasterTypes, type)
    /\ \A other \in ElementsOf(disasterTypes) \ {type} :
         InArray(toggledTypes(selectedDisasterTypes, type), other)
           <=> InArray(selectedDisasterTypes, other)
    /\ ElementsOf(toggledTypes(toggledTypes(selectedDisasterTypes, type), type))
         = ElementsOf(selectedDisasterTypes)

\* Storm has been toggled off, and Flood off and on again: it is now the
\* last of the selected types
C18_Witness ==
  /\ ~InArray(selectedDisasterTypes, tStorm)
  /\ Len(selectedDisasterTypes) = 5
  /\ selectedDisasterTypes[5] = tFlood
  /\ selectedDisasterTypes[1] = tDrought

\* C29: selectedDisasterTypes holds no type twice and only types of the
\* legend (Flood, Drought, Landslide, Extreme temperature, Storm, Wildfire),
\* never TOTAL, so that no TOTAL series is among the series the scatterplot
\* adds up for a country.
C29_SelectedTypesAreLegendTypes ==
  /\ \A i, j \in 1..Len(selectedDisasterTypes) :
       i # j => selectedDisasterTypes[i] # selectedDisasterTypes[j]
  /\ ElementsOf(selectedDisasterTypes) \subseteq ElementsOf(barDisasterTypes)
  /\ ~InArray(selectedDisasterTypes, tTOTAL)
  /\ \A g \in 1..Len(disastersByCountry(disaster)) :
       \A t \in 1..Len(selectedSeries(disastersByCountry(disaster)[g].disasters)) :
         selectedSeries(disastersByCountry(disaster)[g].disasters)[t].type # tTOTAL

\* the data is loaded, and Flood has been clicked off and on again: it is
\* the last of the six selected types
C29_Witness ==
  /\ Len(disastersByCountry(disaster)) > 0
  /\ Len(selectedDisasterTypes) = 6
  /\ selectedDisasterTypes[6] = tFlood

\* in this step the country enters highlightedCountries if it was not in
\* it and leaves it if it was, and no other country enters or leaves
FlipsHighlight(iso3) ==
  /\ InArray(highlightedCountries', iso3) <=> ~InArray(highlightedCountries, iso3)
  /\ \A other \in (ElementsOf(highlightedCountries) \cup ElementsOf(highlightedCountries')) \ {iso3} :
       InArray(highlightedCountries', other) <=> InArray(highlightedCountries, other)

\* C30: a click on the bar of a country in the disaster bar chart or in the
\* forest bar chart, or on its dot in the scatterplot, flips the highlight
\* of that country and of no other.
C30_ClickFlipsHighlight ==
  [][\A iso3 \in {sTST, sTCD} :
       barClick(iso3) \/ forestBarClick(iso3) \/ dotClick(iso3) => FlipsHighlight(iso3)]_vars

\* both countries are highlighted, TST after TCD, and the bars of both are
\* drawn
C30_Witness ==
  /\ highlightedCountries = <<sTCD, sTST>>
  /\ barCountries(transformedData) = <<sTST, sTCD>>

\* ------------------------------------------------------------------------
\* Claims about the normalization and the rendering of the views
\* ------------------------------------------------------------------------

\* all six disaster types of the legend are selected
AllTypesSelected == ElementsOf(barDisasterTypes) \subseteq ElementsOf(selectedDisasterTypes)

\* C19: with normalizeData on and all six disaster types selected, the
\* normalized disaster total of a country in the scatterplot is the sum of
\* its six normalized values in the disaster bar chart, and its normalized
\* mean carbon stock in the scatterplot is the one of the forest bar chart.
C19_ViewsNormalizeIdentically ==
  normalizeData /\ AllTypesSelected =>
    /\ \A i \in 1..Len(mappedData) : \A j \in 1..Len(transformedData) :
         mappedData[i].ISO3 = transformedData[j].ISO3 =>
           mappedData[i].totalDisasters = sumOfTypes(transformedData[j], barDisasterTypes)
    /\ \A i \in 1..Len(mappedData) : \A k \in 1..Len(forestData) :
         mappedData[i].ISO3 = forestData[k].ISO3 =>
           mappedData[i].meanCarbonStocks = forestData[k].normalizedCarbonStocks

\* the time series has drawn itself on the store as it is: onMounted draws
\* it when its loadData call has returned, and its watcher draws it again
\* at every change of selectedDisasterTypes, selectedCountries or
\* highlightedCountries, also before the data is loaded
TimeSeriesDrawnOnStore ==
  \/ pc[1] = "done"
  \/ selectedDisasterTypes # barDisasterTypes
  \/ selectedCountries # <<>>
  \/ highlightedCountries # <<>>

\* C20: createTimeSeriesChart completes without raising an error on every
\* store state it runs on: before the data is loaded and with any selection
\* and highlight.
C20_TimeSeriesNeverRaises ==
  TimeSeriesDrawnOnStore => createTimeSeriesChart # "TypeError"

\* ------------------------------------------------------------------------
\* Claims about the frame of the selection actions and of the views
\* ------------------------------------------------------------------------

\* C22: a step that changes the selection state (toggleDisasterType,
\* setSelectedCountries, add/remove/resetHighlightedCountries,
\* toggleNormalizeData, add/removeMouseOverCountry) leaves store.disaster,
\* store.carbon, disastersByCountry and carbonByCountry as they were.
C22_SelectionActionsLeaveData ==
  [][selectionVars' # selectionVars =>
       /\ disaster' = disaster
       /\ carbon' = carbon
       /\ disastersByCountry(disaster') = disastersByCountry(disaster)
       /\ carbonByCountry(carbon') = carbonByCountry(carbon)]_vars

\* the data is loaded and every part of the selection state has been changed
C22_Witness ==
  /\ disastersByCountry(disaster) # <<>>
  /\ carbonByCountry(carbon) # <<>>
  /\ ~InArray(selectedDisasterTypes, tFlood)
  /\ selectedCountries = <<sTCD>>
  /\ highlightedCountries = <<sTST>>
  /\ mouseOverCountry = sTST
  /\ normalizeData

\* ------------------------------------------------------------------------
\* Claims about the DOM of the charts
\* ------------------------------------------------------------------------

\* a chart is drawn: by the watchers or at the end of an onMounted
RenderStep == flushWatchers \/ \E k \in Charts : onMountedContinues(k)

\* C23: drawing the charts mutates nothing it reads: the country records of
\* disastersByCountry and carbonByCountry, the raw rows and the selection
\* state are the same after the render as before
C23_RenderMutatesNothing ==
  [][RenderStep =>
       /\ disaster' = disaster
       /\ carbon' = carbon
       /\ disastersByCountry(disaster') = disastersByCountry(disaster)
       /\ carbonByCountry(carbon') = carbonByCountry(carbon)
       /\ selectionVars' = selectionVars]_vars

\* the loaded bar chart has been drawn again after a click in the control panel
C23_Witness ==
  /\ "bar" \in mounted
  /\ disaster # <<>>
  /\ carbon # <<>>
  /\ seen # <<selectedDisasterTypes, selectedCountries, highlightedCountries,
              mouseOverCountry, FALSE>>
  /\ Triggered = {}
  /\ normalizeData

\* C26: whatever the order of the responses, the onMounted continuations
\* and the watcher callbacks, the container of each chart holds at most one
\* svg element
C26_OneSvgPerContainer == \A k \in Charts : svgs[k] <= 1

\* C27: after a click on the background of the scatterplot the selection
\* stays empty until a new zoom: a step that makes selectedCountries
\* non-empty is the timeout of a zoom made on the scatterplot as the last
\* click drew it, never one set before that click
C27_ClickCancelsPendingZoom ==
  [][selectedCountries = <<>> /\ selectedCountries' # <<>>
       => timers # <<>> /\ timers[1].live]_vars

\* ------------------------------------------------------------------------
\* Claims about loadData
\* ------------------------------------------------------------------------

\* C6: a loadData call one of whose two fetches fails rejects without
\* having assigned to the store: store.disaster and store.carbon are as they
\* were before the call (the initial empty arrays when no call has returned).
C6_FailedLoadLeavesStore ==
  /\ \A c \in Calls : pc[c] = "rejected" => c \notin writers /\ disasterFrom # c /\ carbonFrom # c
  /\ (\A c \in Calls : pc[c] # "done") => disaster = <<>> /\ carbon = <<>>

\* a call rejected at its second fetch while the store holds the tables of
\* another call
C6_Witness ==
  \E a, b \in Calls :
    /\ pc[a] = "rejected"
    /\ disasterData[a] # <<>>
    /\ pc[b] = "done"
    /\ disasterData[a] # disasterData[b]
    /\ disaster = disasterData[b]
    /\ carbon = carbonData[b]

\* C7: in every state between two tasks store.disaster and store.carbon
\* were assigned by the same loadData call and are the rows it fetched, or
\* both are still the initial empty arrays.
C7_BothTablesFromOneCall ==
  /\ disasterFrom = carbonFrom
  /\ disasterFrom = 0 => disaster = <<>> /\ carbon = <<>>
  /\ disasterFrom # 0 =>
       /\ pc[disasterFrom] = "done"
       /\ disaster = disasterData[disasterFrom]
       /\ carbon = carbonData[carbonFrom]

\* the store holds the tables of one call while another call, which got
\* different disaster rows, waits for its carbon file
C7_Witness ==
  \E a, b \in Calls :
    /\ pc[a] = "done"
    /\ disasterFrom = a
    /\ pc[b] = "awaitCarbon"
    /\ disasterData[b] # disasterData[a]

\* the derived collections of the store as a call left it
DatasetAfter(c) ==
  [disasters |-> disastersByCountry(stored[c].d), carbon |-> carbonByCountry(stored[c].c)]

\* C8: two loadData calls that fetched identical raw rows left derived
\* collections that are equal field for field.
C8_ReloadIdempotent ==
  \A a, b \in Calls :
    /\ pc[a] = "done"
    /\ pc[b] = "done"
    /\ disasterData[a] = disasterData[b]
    /\ carbonData[a] = carbonData[b]
    => DatasetAfter(a) = DatasetAfter(b)

\* two calls returned with the same rows and a third with other rows
C8_Witness ==
  \E a, b, c \in Calls :
    /\ a # b
    /\ pc[a] = "done" /\ pc[b] = "done" /\ pc[c] = "done"
    /\ disasterData[a] = disasterData[b]
    /\ carbonData[a] = carbonData[b]
    /\ disasterData[c] # disasterData[a]
    /\ DatasetAfter(a) # DatasetAfter(c)
    /\ Len(DatasetAfter(a).disasters) > 0

\* the calls that have returned
DoneCalls == {c \in Calls : pc[c] = "done"}

\* the call made last among those that have returned
LastMadeDone == CHOOSE c \in DoneCalls : \A b \in DoneCalls : b <= c

\* C21: when no loadData call is in flight any more, the store holds the
\* rows fetched by the call that was made last among those that returned,
\* whatever the order in which the fetches of overlapping calls resolved.
C21_LaterReloadWins ==
  (DoneCalls # {} /\ \A c \in Calls : pc[c] \in {"idle", "done", "rejected"}) =>
    /\ disaster = disasterData[LastMadeDone]
    /\ carbon = carbonData[LastMadeDone]

====
